---- MODULE Spec2Model ----
(***************************************************************************)
(* Workflow orchestration (WorkflowService) and the Instagram publish      *)
(* register (InstagramUploadService) of the content creation automation    *)
(* server.                                                                 *)
(*                                                                         *)
(* The server is a single Node.js process: code between two awaits runs    *)
(* without interleaving, so every action below is one such stretch, from   *)
(* the resumption of a handler to its next await or its return.            *)
(***************************************************************************)
EXTENDS Integers, Sequences, FiniteSets, TLC

(***************************************************************************)
(* Bounds of the model.                                                    *)
(***************************************************************************)
\* containers the approval callbacks create before the platform issues no more ids
MaxContainers == 2
\* containers the workflow runs create before the platform issues no more ids
\* (and the approval callbacks, where the environment loses its credentials)
MaxRunContainers == 1
\* last reading of the clock (Date.now() / new Date())
MaxTime == 1

VARIABLES
    env,          \* process.env and ConfigService: which settings are present
    now,          \* the clock
    wfPc,         \* executeCompleteWorkflow: the await the run is suspended at
    wfConfig,     \* its config argument
    wfResult,     \* its `result` object
    wfStart,      \* its `startTime`
    wfCalls,      \* collaborator operations the run has invoked, in order
    containers,   \* InstagramUploadService.containers (id -> ContainerInfo)
    timers,       \* armed setTimeout callbacks per container id
    posts,        \* create-calls (POST /media) in flight
    confirms,     \* confirm-calls (POST /media_publish) in flight, per id
    confirmCalls, \* confirm-calls ever issued, per id
    apPc,         \* handleEmailApprovalWithInstagram: idle, awaiting, done
    apResult,     \* its returned value
    query,        \* the response getInstagramContainers is about to send
    mail,         \* the call of the email service in progress, its loop's locals
    wfPrevious,   \* the result the run before returned to its caller, if kept
    request,      \* WorkflowController / CronController: the request awaiting a run
    content,      \* EmailApprovalController.handleContentAction: the request in progress
    poll          \* VideoService.generateVideo: the call in progress, its locals

vars == <<env, now, wfPc, wfConfig, wfResult, wfStart, wfCalls, containers,
          timers, posts, confirms, confirmCalls, apPc, apResult, query, mail,
          wfPrevious, request, content, poll>>

wfVars == <<wfPc, wfConfig, wfResult, wfStart, wfCalls, wfPrevious>>
regVars == <<containers, timers, confirms, confirmCalls>>
apVars == <<apPc, apResult>>
reqVars == <<request, content, poll>>

(***************************************************************************)
(* Values.                                                                 *)
(***************************************************************************)
HARDCODED_VIDEO_PROMPT ==
    "Create a dynamic video from this image. Add natural movement and life to the scene: gentle camera motion, moving elements like leaves, water, clouds, or people if present. Keep it smooth and realistic. Focus on bringing the static image to life with subtle animations and flowing movements. Dont add anything not present in the image. The main aim of the video is to make the image dynamic by motion."

\* JavaScript's `undefined` for a string-valued slot
Undefined == "undefined"

StepNames == <<"imageConversion", "promptGeneration", "captionGeneration",
               "videoGeneration", "emailSending", "instagramUpload">>

RequiredSteps == {"imageConversion", "promptGeneration", "captionGeneration",
                  "videoGeneration"}

\* the collaborator operation behind each step (step 2 has none)
Collaborator == [imageConversion |-> "convertImageToAspectRatio",
                 captionGeneration |-> "generateCaptionFromImageUrl",
                 videoGeneration |-> "generateVideo",
                 emailSending |-> "sendContentDeliveryEmail",
                 instagramUpload |-> "createInstagramContainer"]

ImageUrls == {"", "ftp://x/img.jpg", "https://x/img.jpg"}

\* WorkflowConfig; an optional member that is not given is not in the record
Configs ==
    { [imageUrl |-> u, autoPublishToInstagram |-> a] :
        u \in ImageUrls, a \in BOOLEAN }
    \cup
    { [imageUrl |-> u, autoPublishToInstagram |-> a, recipientEmail |-> "a@b.com"] :
        u \in ImageUrls, a \in BOOLEAN }

NoConfig == [imageUrl |-> ""]

\* no request of the workflow endpoints, of the content-action endpoint, and
\* no call of generateVideo is in progress
NoRequest == [endpoint |-> "none", pc |-> "idle"]
NoContent == [pc |-> "idle"]
NoPoll == [pc |-> "idle"]

\* what generateCaptionFromImageUrl resolves to
CaptionResults == { [caption |-> "Hello", hashtags |-> <<>>],
                    [caption |-> "Hello", hashtags |-> <<"#a", "#b">>] }

\* what generateVideo resolves to
VideoResults == { [videoUrl |-> "https://v/1.mp4", taskId |-> "t1"] }

ImageErrors == {"Failed to download image from URL: timeout"}
CaptionErrors == {"Failed to generate caption from image URL: bad response"}
VideoErrors == {"Error generating video: timed out"}
EmailErrors == {"Email delivery failed after 3 attempts: ETIMEDOUT"}
InstagramErrors == {"createInstagramContainer rejected"}

Has(r, f) == f \in DOMAIN r

Range(seq) == { seq[i] : i \in 1..Len(seq) }

\* CronService.defaultImageUrls as the constructor sets it
defaultImageUrls ==
    <<"https://drive.google.com/file/d/1hZA1fzLi9jxiB7w5D_Qe994WJ6tr4D_c/view?usp=drive_link">>

\* TriggerWorkflowDto: imageUrl is optional
TriggerDtos == { [imageUrl |-> u] : u \in {<<>>, <<"">>, <<"ftp://x/img.jpg">>,
                                            <<"https://x/img.jpg">>} }

ContainerId(n) == "C" \o ToString(n)
ContainerIds ==
    { ContainerId(n) :
        n \in 1..(IF MaxContainers > MaxRunContainers THEN MaxContainers
                  ELSE MaxRunContainers) }

(***************************************************************************)
(* WorkflowResult and its StepOutcome entries.                             *)
(***************************************************************************)
InitialResult ==
    [success |-> FALSE,
     steps |-> [imageConversion |-> [success |-> FALSE],
                promptGeneration |-> [success |-> FALSE],
                captionGeneration |-> [success |-> FALSE],
                videoGeneration |-> [success |-> FALSE],
                emailSending |-> [success |-> FALSE],
                instagramUpload |-> [success |-> FALSE]],
     executionTime |-> 0]

StepSucceeded(data) == [success |-> TRUE, data |-> data]

StepFailed(message) == [success |-> FALSE, error |-> message]

RecordStep(res, step, outcome) == [res EXCEPT !.steps[step] = outcome]

(***************************************************************************)
(* InstagramUploadService: the publish register.                           *)
(***************************************************************************)
\* errors as thrown: axios errors carry the platform's response when one came
PlainError(message) == [axios |-> FALSE, message |-> message]

PlatformError == [axios |-> TRUE, message |-> "Request failed with status code 400",
                  error |-> [message |-> "Invalid parameter",
                             type |-> "OAuthException", code |-> "100"]]

TransportError == [axios |-> TRUE, message |-> "timeout of 60000ms exceeded"]

CreatedMessage == "Instagram container created successfully. Will be published in 1 minute."

\* MissingCredential, had only the access token been checked
MissingCredentialTokenOnly(e) ==
    IF ~e.INSTAGRAM_ACCESS_TOKEN
    THEN <<PlainError("INSTAGRAM_ACCESS_TOKEN environment variable is not set")>>
    ELSE <<>>

\* lines 25-34: the credentials check both of create and (129-131) of publish
MissingCredential(e) ==
    IF ~e.INSTAGRAM_ACCESS_TOKEN
    THEN <<PlainError("INSTAGRAM_ACCESS_TOKEN environment variable is not set")>>
    ELSE IF ~e.INSTAGRAM_ACCOUNT_ID
    THEN <<PlainError("INSTAGRAM_ACCOUNT_ID environment variable is not set")>>
    ELSE <<>>

\* lines 83-101: the catch block of createInstagramContainer
CreateFailure(error) ==
    IF error.axios
    THEN [success |-> FALSE,
          message |-> "Instagram API error: "
              \o (IF Has(error, "error") THEN error.error.message ELSE error.message)
              \o " (Type: " \o (IF Has(error, "error") THEN error.error.type ELSE "Unknown")
              \o ", Code: " \o (IF Has(error, "error") THEN error.error.code ELSE "N/A")
              \o ")"]
    ELSE [success |-> FALSE,
          message |-> "Failed to create Instagram container: " \o error.message]

\* NewContainerInfo, had the container been stored as pending
NewContainerInfoPending(id, videoUrl, caption, t) ==
    [containerId |-> id, videoUrl |-> videoUrl, caption |-> caption,
     createdAt |-> t, status |-> "pending"]

\* lines 60-67
NewContainerInfo(id, videoUrl, caption, t) ==
    [containerId |-> id, videoUrl |-> videoUrl, caption |-> caption,
     createdAt |-> t, status |-> "processing"]

\* MapSet, had the entry not been stored
MapSetDropped(tbl, id, info) == tbl

\* Map.set
MapSet(tbl, id, info) ==
    [k \in DOMAIN tbl \cup {id} |-> IF k = id THEN info ELSE tbl[k]]

\* scheduleContainerPublishing, had it armed a second timer for the container
scheduleContainerPublishingTwice(tmr, id) == [tmr EXCEPT ![id] = @ + 2]

\* lines 107-111: one setTimeout per call
scheduleContainerPublishing(tmr, id) == [tmr EXCEPT ![id] = @ + 1]

\* createInstagramContainerResume, had the missing id been thrown outside the
\* try block
createInstagramContainerResumeThrowing(tbl, tmr, req, resp, t) ==
    IF resp.kind = "error"
    THEN [containers |-> tbl, timers |-> tmr, raised |-> FALSE,
          value |-> CreateFailure(resp.error)]
    ELSE IF ~Has(resp, "id")
    THEN [containers |-> tbl, timers |-> tmr, raised |-> TRUE,
          value |-> PlainError("No container ID returned from Facebook API")]
    ELSE [containers |-> MapSet(tbl, resp.id,
                                NewContainerInfo(resp.id, req.videoUrl, req.caption, t)),
          timers |-> scheduleContainerPublishing(tmr, resp.id),
          raised |-> FALSE,
          value |-> [success |-> TRUE, containerId |-> resp.id,
                     message |-> CreatedMessage]]

\* createInstagramContainerResume, had the container been stored before the
\* check of the returned id
createInstagramContainerResumeStoringFirst(tbl, tmr, req, resp, t) ==
    IF resp.kind = "error"
    THEN [containers |-> tbl, timers |-> tmr, raised |-> FALSE,
          value |-> CreateFailure(resp.error)]
    ELSE IF ~Has(resp, "id")
    THEN [containers |-> MapSet(tbl, Undefined,
                                NewContainerInfo(Undefined, req.videoUrl, req.caption, t)),
          timers |-> tmr, raised |-> FALSE,
          value |-> CreateFailure(PlainError("No container ID returned from Facebook API"))]
    ELSE [containers |-> MapSet(tbl, resp.id,
                                NewContainerInfo(resp.id, req.videoUrl, req.caption, t)),
          timers |-> scheduleContainerPublishing(tmr, resp.id),
          raised |-> FALSE,
          value |-> [success |-> TRUE, containerId |-> resp.id,
                     message |-> CreatedMessage]]

\* lines 55-81 and 83-101: createInstagramContainer from the platform's answer
\* to its return; the register's table and timers after it, and the value
createInstagramContainerResume(tbl, tmr, req, resp, t) ==
    IF resp.kind = "error"
    THEN [containers |-> tbl, timers |-> tmr, raised |-> FALSE,
          value |-> CreateFailure(resp.error)]
    ELSE IF ~Has(resp, "id")
    THEN [containers |-> tbl, timers |-> tmr, raised |-> FALSE,
          value |-> CreateFailure(PlainError("No container ID returned from Facebook API"))]
    ELSE [containers |-> MapSet(tbl, resp.id,
                                NewContainerInfo(resp.id, req.videoUrl, req.caption, t)),
          timers |-> scheduleContainerPublishing(tmr, resp.id),
          raised |-> FALSE,
          value |-> [success |-> TRUE, containerId |-> resp.id,
                     message |-> CreatedMessage]]

\* lines 181-183
getContainerStatus(tbl, id) == IF id \in DOMAIN tbl THEN <<tbl[id]>> ELSE <<>>

\* lines 188-190
getAllContainers(tbl) == { tbl[id] : id \in DOMAIN tbl }

\* the platform: it answers a create-call with a fresh id, with a response
\* that carries no id, or with an error; it never issues an id twice
CreateResponses(tbl, limit) ==
    { [kind |-> "response", id |-> ContainerId(Cardinality(DOMAIN tbl) + 1)] :
        x \in IF Cardinality(DOMAIN tbl) < limit THEN {1} ELSE {} }
    \cup { [kind |-> "response"],
           [kind |-> "error", error |-> PlatformError],
           [kind |-> "error", error |-> TransportError] }

(***************************************************************************)
(* WorkflowService.executeCompleteWorkflow                                 *)
(***************************************************************************)
\* isValidImageUrl, had any URL that parses been accepted
isValidImageUrlAnyProtocol(url) ==
    url \in {"ftp://x/img.jpg", "https://x/img.jpg"} \cup Range(defaultImageUrls)

\* ImageService.isValidImageUrl (new URL(url) parses, protocol http: or https:)
isValidImageUrl(url) == url \in {"https://x/img.jpg"} \cup Range(defaultImageUrls)

\* convertImageToAspectRatio and generateCaptionFromImageUrl up to their first
\* await: the validation errors
UrlError(url) ==
    IF url = "" THEN <<"Image URL is required.">>
    ELSE IF ~isValidImageUrl(url) THEN <<"Invalid image URL provided.">>
    ELSE <<>>

\* Recipient, had the configured MAIL_USER been preferred to the config's address
RecipientEnvFirst(cfg, e) ==
    IF e.MAIL_USER THEN "owner@mail.com"
    ELSE IF Has(cfg, "recipientEmail") /\ cfg.recipientEmail # "" THEN cfg.recipientEmail
    ELSE Undefined

\* line 146: config.recipientEmail || configService.get('MAIL_USER')
Recipient(cfg, e) ==
    IF Has(cfg, "recipientEmail") /\ cfg.recipientEmail # "" THEN cfg.recipientEmail
    ELSE IF e.MAIL_USER THEN "owner@mail.com"
    ELSE Undefined

\* line 174
WorkflowFullCaption(captionData) ==
    captionData.caption \o "\n\n" \o
    (IF Len(captionData.hashtags) = 0 THEN ""
     ELSE IF Len(captionData.hashtags) = 1 THEN captionData.hashtags[1]
     ELSE captionData.hashtags[1] \o " " \o captionData.hashtags[2])

\* InstagramOutcome, had the step been recorded as a success whatever was returned
InstagramOutcomeAssumed(value) ==
    [success |-> TRUE,
     data |-> [containerId |-> IF Has(value, "containerId") THEN value.containerId
                                ELSE Undefined,
               message |-> value.message, scheduled |-> TRUE, publishIn |-> "1 minute"]]

\* lines 181-189: step 6 recorded from the value createInstagramContainer returned
InstagramOutcome(value) ==
    [success |-> value.success,
     data |-> [containerId |-> IF Has(value, "containerId") THEN value.containerId
                                ELSE Undefined,
               message |-> value.message, scheduled |-> TRUE, publishIn |-> "1 minute"]]

\* lines 207-210
SkippedOutcome ==
    [success |-> TRUE,
     data |-> [skipped |-> TRUE, reason |-> "autoPublishToInstagram disabled"]]

\* instagramPublished, had the skipped marker been ignored
instagramPublishedAnySuccess(o) == o.success

\* line 222: instagramUpload?.success && !instagramUpload?.data?.skipped
instagramPublished(o) ==
    o.success /\ ~(Has(o, "data") /\ Has(o.data, "skipped") /\ o.data.skipped)

\* lines 214-223
FinalOutput(res) ==
    [convertedImage |-> res.steps.imageConversion.data.convertedImage,
     prompt |-> HARDCODED_VIDEO_PROMPT,
     caption |-> res.steps.captionGeneration.data.caption,
     hashtags |-> res.steps.captionGeneration.data.hashtags,
     videoUrl |-> res.steps.videoGeneration.data.videoUrl,
     emailSent |-> res.steps.emailSending.success,
     instagramContainerId |->
        IF Has(res.steps.instagramUpload, "data")
           /\ Has(res.steps.instagramUpload.data, "containerId")
        THEN res.steps.instagramUpload.data.containerId ELSE Undefined,
     instagramPublished |-> instagramPublished(res.steps.instagramUpload)]

\* lines 231-234: the finally block
Finally(res, elapsed) == [res EXCEPT !.executionTime = elapsed]

\* Complete, had the notification's failure flipped the success flag
CompleteIfDelivered(res, elapsed) ==
    [pc |-> "done",
     result |-> Finally([success |-> res.steps.emailSending.success,
                         steps |-> res.steps,
                         executionTime |-> res.executionTime,
                         finalOutput |-> FinalOutput(res)], elapsed)]

\* Complete, had the final output been left out after a failed publish step
CompleteWithoutOutput(res, elapsed) ==
    [pc |-> "done",
     result |-> Finally(IF res.steps.instagramUpload.success
                        THEN [success |-> TRUE, steps |-> res.steps,
                              executionTime |-> res.executionTime,
                              finalOutput |-> FinalOutput(res)]
                        ELSE [res EXCEPT !.success = TRUE], elapsed)]

\* lines 213-226 and 231-236: the run completes
Complete(res, elapsed) ==
    [pc |-> "done",
     result |-> Finally([success |-> TRUE, steps |-> res.steps,
                         executionTime |-> res.executionTime,
                         finalOutput |-> FinalOutput(res)], elapsed)]

\* Abort, had the outer catch marked the notification step as failed too
AbortMarksLaterSteps(res, step, message, elapsed) ==
    [pc |-> "done",
     result |-> Finally([RecordStep(RecordStep(res, step, StepFailed(message)),
                                    "emailSending", StepFailed(message))
                            EXCEPT !.success = FALSE], elapsed)]

\* Abort, had the outer catch rethrown (the finally block still runs)
AbortRethrows(res, step, message, elapsed) ==
    [pc |-> "thrown",
     result |-> Finally([RecordStep(res, step, StepFailed(message))
                            EXCEPT !.success = FALSE], elapsed)]

\* a required step's catch (80-84, 118-122, 137-141) rethrows into the outer
\* catch (228-230), then finally and return (231-236)
Abort(res, step, message, elapsed) ==
    [pc |-> "done",
     result |-> Finally([RecordStep(res, step, StepFailed(message))
                            EXCEPT !.success = FALSE], elapsed)]

\* EmailFailed, had the catch not recorded the failure
EmailFailedUnrecorded(res, message) == res

\* lines 164-168: the email step's catch does not rethrow
EmailFailed(res, message) == RecordStep(res, "emailSending", StepFailed(message))

\* lines 197-204: the instagram step's catch does not rethrow
InstagramFailed(res, message) == RecordStep(res, "instagramUpload", StepFailed(message))

\* where a stretch of the run ends: the await it suspends at (or "done"), the
\* result object, the collaborator operations invoked and the create-call issued
Suspended(pc, res, calls, post) ==
    [pc |-> pc, result |-> res, calls |-> calls, post |-> post]

Ended(k, calls) == Suspended(k.pc, k.result, calls, {})

\* InstagramStep, had the autoPublishToInstagram flag been ignored
InstagramStepAlways(res, cfg, calls, elapsed, e) ==
    LET called == Append(calls, Collaborator.instagramUpload) IN
    IF MissingCredential(e) # <<>>
    THEN Ended(Complete(RecordStep(res, "instagramUpload",
                   InstagramOutcome(CreateFailure(MissingCredential(e)[1]))),
                   elapsed), called)
    ELSE Suspended("instagram", res, called,
             {[caller |-> "workflow",
               videoUrl |-> res.steps.videoGeneration.data.videoUrl,
               caption |-> WorkflowFullCaption(res.steps.captionGeneration.data)]})

\* lines 170-236: step 6 up to the await of line 176, or through to the return
InstagramStep(res, cfg, calls, elapsed, e) ==
    IF Has(cfg, "autoPublishToInstagram") /\ cfg.autoPublishToInstagram
    THEN LET called == Append(calls, Collaborator.instagramUpload) IN
         IF MissingCredential(e) # <<>>
         THEN Ended(Complete(RecordStep(res, "instagramUpload",
                        InstagramOutcome(CreateFailure(MissingCredential(e)[1]))),
                        elapsed), called)
         ELSE Suspended("instagram", res, called,
                  {[caller |-> "workflow",
                    videoUrl |-> res.steps.videoGeneration.data.videoUrl,
                    caption |-> WorkflowFullCaption(res.steps.captionGeneration.data)]})
    ELSE Ended(Complete(RecordStep(res, "instagramUpload", SkippedOutcome), elapsed),
               calls)

\* lines 143-168: step 5 up to the await of line 152; without a recipient the
\* step fails before any send and the run goes on to step 6
EmailStep(res, cfg, calls, elapsed, e) ==
    IF Recipient(cfg, e) = Undefined
    THEN InstagramStep(
             EmailFailed(res, "No recipient email provided and MAIL_USER not configured"),
             cfg, calls, elapsed, e)
    ELSE Suspended("email", res, Append(calls, Collaborator.emailSending), {})

Resume(k) ==
    /\ wfPc' = k.pc
    /\ wfResult' = k.result
    /\ wfCalls' = k.calls
    /\ posts' = posts \cup k.post

Elapsed == now - wfStart

\* Start, had the result object been a member of the service, built once
StartFromPrevious(cfg) ==
    LET result == IF wfPrevious = <<>> THEN InitialResult ELSE wfPrevious[1] IN
    /\ wfPc = "idle"
    /\ wfConfig' = cfg
    /\ wfStart' = now
    /\ IF UrlError(cfg.imageUrl) # <<>>
       THEN Resume(Ended(Abort(result, "imageConversion",
                               UrlError(cfg.imageUrl)[1], 0),
                         <<Collaborator.imageConversion>>))
       ELSE Resume(Suspended("image", result,
                             <<Collaborator.imageConversion>>, {}))
    /\ UNCHANGED <<reqVars, wfPrevious, env, query, mail, now, regVars, apVars>>

\* Start, had image conversion and caption generation been started together
StartFanOut(cfg) ==
    /\ wfPc = "idle"
    /\ wfConfig' = cfg
    /\ wfStart' = now
    /\ IF UrlError(cfg.imageUrl) # <<>>
       THEN Resume(Ended(Abort(InitialResult, "imageConversion",
                               UrlError(cfg.imageUrl)[1], 0),
                         <<Collaborator.imageConversion>>))
       ELSE Resume(Suspended("image", InitialResult,
                             <<Collaborator.imageConversion,
                               Collaborator.captionGeneration>>, {}))
    /\ UNCHANGED <<reqVars, wfPrevious, env, query, mail, now, regVars, apVars>>

\* lines 53-74: entry, the result object, step 1 up to the download
Enter(cfg) ==
    /\ wfPc = "idle"
    /\ wfConfig' = cfg
    /\ wfStart' = now
    /\ IF UrlError(cfg.imageUrl) # <<>>
       THEN Resume(Ended(Abort(InitialResult, "imageConversion",
                               UrlError(cfg.imageUrl)[1], 0),
                         <<Collaborator.imageConversion>>))
       ELSE Resume(Suspended("image", InitialResult,
                             <<Collaborator.imageConversion>>, {}))
    /\ UNCHANGED <<content, poll, wfPrevious, env, query, mail, now, regVars, apVars>>

\* executeCompleteWorkflow is called; who awaits it is left open
Start(cfg) == Enter(cfg) /\ UNCHANGED request

\* lines 74-112: step 1 recorded, step 2, step 3 up to the model call
ImageConverted ==
    /\ wfPc = "image"
    /\ LET r1 == RecordStep(wfResult, "imageConversion",
                     StepSucceeded([convertedImage |-> "data:image/jpeg;base64,AAAA"]))
           r2 == RecordStep(r1, "promptGeneration",
                     StepSucceeded([prompt |-> HARDCODED_VIDEO_PROMPT]))
       IN  Resume(Suspended("caption", r2,
                            Append(wfCalls, Collaborator.captionGeneration), {}))
    /\ UNCHANGED <<reqVars, wfPrevious, env, query, mail, now, wfConfig, wfStart, regVars, apVars>>

\* lines 80-84, 228-236
ImageFails(message) ==
    /\ wfPc = "image"
    /\ Resume(Ended(Abort(wfResult, "imageConversion", message, Elapsed), wfCalls))
    /\ UNCHANGED <<reqVars, wfPrevious, env, query, mail, now, wfConfig, wfStart, regVars, apVars>>

\* lines 113-131: step 3 recorded, step 4 up to the video task
CaptionGenerated(captionResult) ==
    /\ wfPc = "caption"
    /\ Resume(Suspended("video",
                  RecordStep(wfResult, "captionGeneration", StepSucceeded(captionResult)),
                  Append(wfCalls, Collaborator.videoGeneration), {}))
    /\ UNCHANGED <<reqVars, wfPrevious, env, query, mail, now, wfConfig, wfStart, regVars, apVars>>

\* lines 118-122, 228-236
CaptionFails(message) ==
    /\ wfPc = "caption"
    /\ Resume(Ended(Abort(wfResult, "captionGeneration", message, Elapsed), wfCalls))
    /\ UNCHANGED <<reqVars, wfPrevious, env, query, mail, now, wfConfig, wfStart, regVars, apVars>>

\* lines 132-157 (and on to the return when step 5 and step 6 do not await)
VideoGenerated(videoResult) ==
    /\ wfPc = "video"
    /\ Resume(EmailStep(RecordStep(wfResult, "videoGeneration", StepSucceeded(videoResult)),
                        wfConfig, wfCalls, Elapsed, env))
    /\ UNCHANGED <<reqVars, wfPrevious, env, query, mail, now, wfConfig, wfStart, regVars, apVars>>

\* VideoFails, had a failed video generation been started once more
VideoFailsRetried(message) ==
    /\ wfPc = "video"
    /\ IF Len(wfCalls) < 4
       THEN Resume(Suspended("video", wfResult,
                             Append(wfCalls, Collaborator.videoGeneration), {}))
       ELSE Resume(Ended(Abort(wfResult, "videoGeneration", message, Elapsed), wfCalls))
    /\ UNCHANGED <<reqVars, wfPrevious, env, query, mail, now, wfConfig, wfStart, regVars, apVars>>

\* lines 137-141, 228-236
VideoFails(message) ==
    /\ wfPc = "video"
    /\ Resume(Ended(Abort(wfResult, "videoGeneration", message, Elapsed), wfCalls))
    /\ UNCHANGED <<reqVars, wfPrevious, env, query, mail, now, wfConfig, wfStart, regVars, apVars>>

\* lines 159-179 (and on to the return when step 6 does not await)
EmailSent ==
    /\ wfPc = "email"
    /\ Resume(InstagramStep(
                  RecordStep(wfResult, "emailSending",
                      StepSucceeded([emailSent |-> TRUE,
                                     recipientEmail |-> Recipient(wfConfig, env)])),
                  wfConfig, wfCalls, Elapsed, env))
    /\ UNCHANGED <<reqVars, wfPrevious, env, query, mail, now, wfConfig, wfStart, regVars, apVars>>

\* lines 164-179
EmailFails(message) ==
    /\ wfPc = "email"
    /\ Resume(InstagramStep(EmailFailed(wfResult, message),
                            wfConfig, wfCalls, Elapsed, env))
    /\ UNCHANGED <<reqVars, wfPrevious, env, query, mail, now, wfConfig, wfStart, regVars, apVars>>

\* the create-call of the run answers: createInstagramContainer lines 55-101,
\* then the workflow's lines 181-236
InstagramReturns(resp) ==
    /\ wfPc = "instagram"
    /\ \E req \in posts :
        /\ req.caller = "workflow"
        /\ LET c == createInstagramContainerResume(containers, timers, req, resp, now)
               k == Complete(IF c.raised
                             THEN InstagramFailed(wfResult, c.value.message)
                             ELSE RecordStep(wfResult, "instagramUpload",
                                             InstagramOutcome(c.value)), Elapsed)
           IN  /\ containers' = c.containers
               /\ timers' = c.timers
               /\ wfPc' = k.pc
               /\ wfResult' = k.result
               /\ posts' = posts \ {req}
    /\ UNCHANGED <<reqVars, wfPrevious, env, query, mail, now, wfConfig, wfStart, wfCalls, confirms, confirmCalls, apVars>>

\* lines 197-236: the awaited create-container operation rejects
InstagramRejects(message) ==
    /\ wfPc = "instagram"
    /\ \E req \in posts :
        /\ req.caller = "workflow"
        /\ LET k == Complete(InstagramFailed(wfResult, message), Elapsed)
           IN  /\ wfPc' = k.pc
               /\ wfResult' = k.result
               /\ posts' = posts \ {req}
    /\ UNCHANGED <<reqVars, wfPrevious, env, query, mail, now, wfConfig, wfStart, wfCalls, regVars, apVars>>

\* the caller has the returned result (or the exception); the next run may start
Collect ==
    /\ wfPc \in {"done", "thrown"}
    /\ wfPc' = "idle"
    /\ wfConfig' = NoConfig
    /\ wfResult' = InitialResult
    /\ wfStart' = 0
    /\ wfCalls' = <<>>
    /\ UNCHANGED <<reqVars, wfPrevious, env, query, mail, now, posts, regVars, apVars>>

\* line 236: the run returns; its caller keeps the result, the run's locals
\* are gone
CollectKept ==
    /\ wfPc \in {"done", "thrown"}
    /\ wfPc' = "idle"
    /\ wfConfig' = NoConfig
    /\ wfResult' = InitialResult
    /\ wfStart' = 0
    /\ wfCalls' = <<>>
    /\ wfPrevious' = <<wfResult>>
    /\ UNCHANGED <<reqVars, env, query, mail, now, posts, regVars, apVars>>

(***************************************************************************)
(* The endpoints that start a run: WorkflowController.executeWorkflow and  *)
(* CronController.triggerWorkflowNow. CronService registers no schedule.   *)
(***************************************************************************)
\* POST /workflow/execute: the body is the run's config
ExecuteWorkflow(cfg) ==
    /\ request.pc = "idle"
    /\ request' = [endpoint |-> "execute", pc |-> "awaiting"]
    /\ Enter(cfg)

\* cron.service.ts lines 32-33: MAIL_USER || CRON_RECIPIENT_EMAIL
TriggerRecipient(e) ==
    IF e.MAIL_USER THEN "owner@mail.com"
    ELSE IF e.CRON_RECIPIENT_EMAIL THEN "cron@mail.com"
    ELSE Undefined

\* TriggerConfig, had the trigger asked for the publish step
TriggerConfigPublishing(imageUrl, recipientEmail) ==
    [imageUrl |-> imageUrl, recipientEmail |-> recipientEmail, videoDuration |-> "5",
     autoPublishToInstagram |-> TRUE]

\* cron.service.ts lines 42-46
TriggerConfig(imageUrl, recipientEmail) ==
    [imageUrl |-> imageUrl, recipientEmail |-> recipientEmail, videoDuration |-> "5"]

\* POST /workflow-trigger/trigger: CronController line 76 and
\* CronService.triggerWorkflowNow lines 29-48, into the run up to its first await
TriggerWorkflowNow(dto) ==
    /\ request.pc = "idle"
    /\ wfPc = "idle"
    /\ IF TriggerRecipient(env) = Undefined
       THEN /\ request' = [endpoint |-> "trigger", pc |-> "raised",
                           message |-> "No recipient email configured"]
            /\ UNCHANGED <<content, poll, env, query, mail, now, wfVars, posts,
                           regVars, apVars>>
       ELSE /\ request' = [endpoint |-> "trigger", pc |-> "awaiting"]
            /\ \E finalImageUrl \in
                    IF dto.imageUrl # <<>> /\ dto.imageUrl[1] # ""
                    THEN {dto.imageUrl[1]} ELSE Range(defaultImageUrls) :
                  Enter(TriggerConfig(finalImageUrl, TriggerRecipient(env)))

\* part_009 line 24 and lines 76-80: the awaited run has returned (or thrown),
\* the endpoint answers and the run's locals are gone
RunAnswered ==
    /\ request.pc = "awaiting"
    /\ wfPc \in {"done", "thrown"}
    /\ request' =
          IF wfPc = "thrown"
          THEN [endpoint |-> request.endpoint, pc |-> "raised",
                message |-> "Internal server error"]
          ELSE IF request.endpoint = "execute"
          THEN [endpoint |-> "execute", pc |-> "answered", body |-> wfResult]
          ELSE [endpoint |-> "trigger", pc |-> "answered",
                body |-> [message |-> "Workflow triggered successfully"]]
    /\ wfPc' = "idle"
    /\ wfConfig' = NoConfig
    /\ wfResult' = InitialResult
    /\ wfStart' = 0
    /\ wfCalls' = <<>>
    /\ UNCHANGED <<content, poll, wfPrevious, env, query, mail, now, posts, regVars,
                   apVars>>

\* the response has been sent
RequestClosed ==
    /\ request.pc \in {"answered", "raised"}
    /\ request' = NoRequest
    /\ UNCHANGED <<content, poll, env, query, mail, now, wfVars, posts, regVars, apVars>>

(***************************************************************************)
(* WorkflowService.handleEmailApprovalWithInstagram: the approval callback *)
(***************************************************************************)
\* the request body is not validated: hashtags is an array of strings or, in
\* the last one, a string (notArray), which has a length and no join
ApprovalArgs ==
    { [videoUrl |-> "https://v/1.mp4", caption |-> "Hello", hashtags |-> h] :
        h \in {<<>>, <<"#a", "#b">>} }
    \cup { [videoUrl |-> "https://v/1.mp4", caption |-> "Hello",
            hashtags |-> <<"#", "a">>, notArray |-> TRUE] }

\* the approvals without hashtags: where the caption does not matter
PlainArgs == {a \in ApprovalArgs : a.hashtags = <<>>}

NoValue == [success |-> FALSE, message |-> ""]

\* ApprovalFullCaption, had the blank line been appended whatever the hashtags
ApprovalFullCaptionAlways(caption, hashtags) ==
    caption \o "\n\n" \o
        (IF Len(hashtags) = 0 THEN ""
         ELSE IF Len(hashtags) = 1 THEN hashtags[1]
         ELSE hashtags[1] \o " " \o hashtags[2])

\* lines 252-254
ApprovalFullCaption(caption, hashtags) ==
    IF Len(hashtags) > 0
    THEN caption \o "\n\n" \o
         (IF Len(hashtags) = 1 THEN hashtags[1] ELSE hashtags[1] \o " " \o hashtags[2])
    ELSE caption

\* lines 252-254 as evaluated: the text, or the TypeError of hashtags.join
BuildCaption(args) ==
    IF Has(args, "notArray") /\ Len(args.hashtags) > 0
    THEN [raised |-> TRUE, message |-> "hashtags.join is not a function"]
    ELSE [raised |-> FALSE,
          value |-> ApprovalFullCaption(args.caption, args.hashtags)]

\* lines 268-274: the callback's catch turns an exception into a value
ApprovalCaught(message) ==
    [success |-> FALSE, message |-> "Failed to upload to Instagram: " \o message]

\* ApprovalCatch, had the catch block thrown again
ApprovalCatchRethrows(pc, message) == [pc |-> "thrown", result |-> NoValue]

\* lines 268-274: the callback returns from its catch block; pc tells where
\* the exception came from (caughtEarly: before the create-call)
ApprovalCatch(pc, message) == [pc |-> pc, result |-> ApprovalCaught(message)]

\* lines 243-257 and createInstagramContainer lines 20-53
ApprovalEnter(args) ==
    /\ apPc = "idle"
    /\ IF BuildCaption(args).raised
       THEN /\ apPc' = ApprovalCatch("caughtEarly", BuildCaption(args).message).pc
            /\ apResult' = ApprovalCatch("caughtEarly", BuildCaption(args).message).result
            /\ posts' = posts
       ELSE IF MissingCredential(env) # <<>>
       THEN /\ apPc' = "done"
            /\ apResult' = CreateFailure(MissingCredential(env)[1])
            /\ posts' = posts
       ELSE /\ apPc' = "await"
            /\ apResult' = apResult
            /\ posts' = posts \cup
                   {[caller |-> "approval", videoUrl |-> args.videoUrl,
                     caption |-> BuildCaption(args).value]}
    /\ UNCHANGED <<request, poll, env, query, mail, now, wfVars, regVars>>

\* handleEmailApprovalWithInstagram is called; who awaits it is left open
Approve(args) == ApprovalEnter(args) /\ UNCHANGED content

\* createInstagramContainer lines 55-101, then lines 259-274
ApprovalReturns(resp) ==
    /\ apPc = "await"
    /\ \E req \in posts :
        /\ req.caller = "approval"
        /\ LET c == createInstagramContainerResume(containers, timers, req, resp, now)
           IN  /\ containers' = c.containers
               /\ timers' = c.timers
               /\ apResult' = IF c.raised
                               THEN ApprovalCatch("caught", c.value.message).result
                               ELSE c.value
               /\ apPc' = IF c.raised
                           THEN ApprovalCatch("caught", c.value.message).pc
                           ELSE "done"
               /\ posts' = posts \ {req}
    /\ UNCHANGED <<reqVars, env, query, mail, now, wfVars, confirms, confirmCalls>>

\* the caller has the returned value
ApprovalCollect ==
    /\ apPc \in {"done", "caught", "caughtEarly"}
    /\ apPc' = "idle"
    /\ apResult' = NoValue
    /\ UNCHANGED <<reqVars, env, query, mail, now, wfVars, posts, regVars>>

(***************************************************************************)
(* InstagramUploadService.publishContainer: the deferred confirm step      *)
(***************************************************************************)
ConfirmResponses ==
    { [kind |-> "response", id |-> "M1"], [kind |-> "response"],
      [kind |-> "error", error |-> PlatformError],
      [kind |-> "error", error |-> TransportError] }

\* MediaId, had any response of the platform been taken for a publication
MediaIdAnyResponse(resp) ==
    IF resp.kind = "response" THEN <<"M0">> ELSE <<>>

\* line 147: response.data?.id of a confirm-call that was answered
MediaId(resp) ==
    IF resp.kind = "response" /\ Has(resp, "id") THEN <<resp.id>> ELSE <<>>

\* SetStatus, had the status been written to every entry of the table
SetStatusAll(tbl, id, status) ==
    [k \in DOMAIN tbl |-> [tbl[k] EXCEPT !.status = status]]

\* SetStatus, had the entry been replaced by a new object
SetStatusReplacing(tbl, id, status) ==
    [tbl EXCEPT ![id] = [containerId |-> id, status |-> status]]

\* lines 152-154 and 165-168: container.status = ...; containers.set(...)
SetStatus(tbl, id, status) == [tbl EXCEPT ![id].status = status]

\* PublishFailed, had the container been put back for a later attempt
PublishFailedPending(tbl, id) ==
    IF id \in DOMAIN tbl THEN SetStatus(tbl, id, "pending") ELSE tbl

\* lines 161-169: the catch block marks the container, if there is one
PublishFailed(tbl, id) ==
    IF id \in DOMAIN tbl THEN SetStatus(tbl, id, "failed") ELSE tbl

\* TimerFires, had the timer's callback been lost
TimerFiresDropped(id) ==
    /\ timers[id] > 0
    /\ timers' = [timers EXCEPT ![id] = @ - 1]
    /\ UNCHANGED <<reqVars, env, query, mail, now, wfVars, posts, containers, confirms,
                   confirmCalls, apVars>>

\* lines 108-145: the timer fires and publishContainer runs up to its confirm-call
TimerFires(id) ==
    /\ timers[id] > 0
    /\ timers' = [timers EXCEPT ![id] = @ - 1]
    /\ IF id \notin DOMAIN containers
       THEN UNCHANGED <<containers, confirms, confirmCalls>>
       ELSE IF MissingCredential(env) # <<>>
       THEN /\ containers' = PublishFailed(containers, id)
            /\ UNCHANGED <<confirms, confirmCalls>>
       ELSE /\ confirms' = [confirms EXCEPT ![id] = @ + 1]
            /\ confirmCalls' = [confirmCalls EXCEPT ![id] = @ + 1]
            /\ UNCHANGED containers
    /\ UNCHANGED <<reqVars, env, query, mail, now, wfVars, posts, apVars>>

\* ConfirmReturns, had a failed confirm-call been issued once more
ConfirmReturnsRetrying(id, resp) ==
    /\ confirms[id] > 0
    /\ IF resp.kind = "response" /\ Has(resp, "id")
       THEN /\ containers' = SetStatus(containers, id, "published")
            /\ confirms' = [confirms EXCEPT ![id] = @ - 1]
            /\ UNCHANGED confirmCalls
       ELSE IF confirmCalls[id] < 2
       THEN /\ confirmCalls' = [confirmCalls EXCEPT ![id] = @ + 1]
            /\ UNCHANGED <<containers, confirms>>
       ELSE /\ containers' = PublishFailed(containers, id)
            /\ confirms' = [confirms EXCEPT ![id] = @ - 1]
            /\ UNCHANGED confirmCalls
    /\ UNCHANGED <<reqVars, env, query, mail, now, wfVars, posts, timers, apVars>>

\* lines 147-175: the confirm-call answers
ConfirmReturns(id, resp) ==
    /\ confirms[id] > 0
    /\ confirms' = [confirms EXCEPT ![id] = @ - 1]
    /\ containers' = IF MediaId(resp) # <<>>
                     THEN SetStatus(containers, id, "published")
                     ELSE PublishFailed(containers, id)
    /\ UNCHANGED <<reqVars, env, query, mail, now, wfVars, posts, timers, confirmCalls, apVars>>

(***************************************************************************)
(* WorkflowController.getInstagramContainers: the status queries           *)
(***************************************************************************)
\* no request is being answered
NoQuery == [none |-> TRUE]

\* a query names a container the platform issued, one it never issued ("C0"),
\* or nothing (the query parameter is absent or empty)
QueryIds == ContainerIds \cup {"C0", ""}

\* line 43: the text sent in the place of a container that is not in the table
ContainerNotFound == [message |-> "Container not found"]

\* lines 39-44: one container
StatusResponse(tbl, containerId) ==
    LET status == getContainerStatus(tbl, containerId)
    IN  [containerId |-> containerId,
         status |-> IF status = <<>> THEN ContainerNotFound ELSE status[1]]

\* lines 46-50: every container
ListResponse(tbl) ==
    LET allContainers == getAllContainers(tbl)
    IN  [containers |-> allContainers, count |-> Cardinality(allContainers)]

\* GetInstagramContainers, had the lookup stored an entry for an unknown id
GetInstagramContainersCaching(containerId) ==
    /\ query = NoQuery
    /\ query' = IF containerId # "" THEN StatusResponse(containers, containerId)
                ELSE ListResponse(containers)
    /\ containers' = IF containerId # "" /\ containerId \notin DOMAIN containers
                     THEN MapSet(containers, containerId,
                                 NewContainerInfo(containerId, "", "", now))
                     ELSE containers
    /\ UNCHANGED <<reqVars, mail, env, now, wfVars, posts, timers, confirms, confirmCalls, apVars>>

\* lines 37-52: the handler has no await, it answers in one stretch
GetInstagramContainers(containerId) ==
    /\ query = NoQuery
    /\ query' = IF containerId # "" THEN StatusResponse(containers, containerId)
                ELSE ListResponse(containers)
    /\ UNCHANGED <<reqVars, mail, env, now, wfVars, posts, regVars, apVars>>

\* the response is sent before any other handler or callback runs
QuerySent ==
    /\ query # NoQuery
    /\ query' = NoQuery
    /\ UNCHANGED <<reqVars, mail, env, now, wfVars, posts, regVars, apVars>>

(***************************************************************************)
(* EmailApprovalService: sendApprovalEmail and sendContentDeliveryEmail    *)
(***************************************************************************)
\* maxRetries, had a fourth attempt been allowed
maxRetriesFour == 3 + 1

\* lines 27 and 83
maxRetries == 3

MailOperations == {"sendApprovalEmail", "sendContentDeliveryEmail"}

\* what an attempt can throw: createTransporter (line 9), sendMail (50, 145)
MailErrors == {"nodemailer.createTransporter is not a function", "Connection timeout"}

\* no call of the service is in progress
NoMail == [pc |-> "idle"]

\* lines 72-74 and 167-169
MailFailure(op, lastError) ==
    (IF op = "sendApprovalEmail" THEN "Approval email delivery failed after "
     ELSE "Email delivery failed after ")
    \o ToString(maxRetries) \o " attempts: " \o lastError

\* lines 26-50 and 77-145: the call enters its loop, attempt 1 is under way
MailCalled(op) ==
    /\ mail = NoMail
    /\ mail' = [pc |-> "attempt", op |-> op, attempt |-> 1, failed |-> 0,
                waits |-> <<>>]
    /\ UNCHANGED <<reqVars, env, query, now, wfVars, posts, regVars, apVars>>

\* lines 57-58 and 152-153: the attempt's sendMail resolved, the call returns
MailAttemptSucceeds ==
    /\ mail.pc = "attempt"
    /\ mail' = [mail EXCEPT !.pc = "returned"]
    /\ UNCHANGED <<reqVars, env, query, now, wfVars, posts, regVars, apVars>>

\* lines 60-74 and 155-169: the attempt threw; the loop waits before the next
\* attempt, or, when it ends, the call raises
MailAttemptFails(message) ==
    /\ mail.pc = "attempt"
    /\ mail' = IF mail.attempt < maxRetries
               THEN [mail EXCEPT !.pc = "wait", !.failed = @ + 1,
                                 !.waits = Append(@, mail.attempt * 2000)]
               ELSE [pc |-> "raised", op |-> mail.op, attempt |-> mail.attempt,
                     failed |-> mail.failed + 1, waits |-> mail.waits,
                     message |-> MailFailure(mail.op, message)]
    /\ UNCHANGED <<reqVars, env, query, now, wfVars, posts, regVars, apVars>>

\* lines 67 and 162, then line 30 or 86: the wait is over, the next attempt
MailWaitOver ==
    /\ mail.pc = "wait"
    /\ mail' = [mail EXCEPT !.pc = "attempt", !.attempt = @ + 1]
    /\ UNCHANGED <<reqVars, env, query, now, wfVars, posts, regVars, apVars>>

\* the caller has the outcome of the call
MailCollect ==
    /\ mail.pc \in {"returned", "raised"}
    /\ mail' = NoMail
    /\ UNCHANGED <<reqVars, env, query, now, wfVars, posts, regVars, apVars>>

(***************************************************************************)
(* EmailApprovalController.handleContentAction (GET content-action).       *)
(* Texts the handler decodes are sequences of characters.                  *)
(***************************************************************************)
Chars(a, b) == <<a, b>>

\* the query of a request as the handler receives it (the framework has
\* decoded it once); an optional parameter is <<>> or <<value>>
ContentQueries ==
    { [action |-> a, videoUrl |-> v, caption |-> c, hashtags |-> h] :
        a \in {"approve", "reject", "publish"},
        v \in {<<>>, << <<"https://v/1.mp4">> >>},
        c \in {<<>>, << <<>> >>, <<Chars("H", "i")>>, <<Chars("5", "%")>>,
                << <<"a", "%", "2", "0", "b">> >>},
        h \in {<<>>, <<Chars("#", "a")>>, <<Chars("#", "%")>>} }

\* a parameter is truthy: given and not the empty string
Given(param) == param # <<>> /\ param[1] # <<>>

HexDigits == {"0", "1", "2", "3", "4", "5", "6", "7", "8", "9",
              "a", "b", "c", "d", "e", "f", "A", "B", "C", "D", "E", "F"}

\* the escapes of the texts above: %20, %23, %25
Unescaped(d1, d2) ==
    IF <<d1, d2>> = <<"2", "0">> THEN <<" ">>
    ELSE IF <<d1, d2>> = <<"2", "3">> THEN <<"#">>
    ELSE IF <<d1, d2>> = <<"2", "5">> THEN <<"%">>
    ELSE <<>>

\* decodeURIComponent: every %XX becomes its character; a % that is not
\* followed by two hex digits (or an escape that is no character) makes it
\* throw URIError
RECURSIVE decodeURIComponent(_)
decodeURIComponent(text) ==
    IF text = <<>> THEN [raised |-> FALSE, value |-> <<>>]
    ELSE IF text[1] # "%"
    THEN LET rest == decodeURIComponent(Tail(text)) IN
         IF rest.raised THEN rest
         ELSE [raised |-> FALSE, value |-> <<text[1]>> \o rest.value]
    ELSE IF Len(text) < 3 \/ text[2] \notin HexDigits \/ text[3] \notin HexDigits
            \/ Unescaped(text[2], text[3]) = <<>>
    THEN [raised |-> TRUE, message |-> "URI malformed"]
    ELSE LET rest == decodeURIComponent(SubSeq(text, 4, Len(text))) IN
         IF rest.raised THEN rest
         ELSE [raised |-> FALSE, value |-> Unescaped(text[2], text[3]) \o rest.value]

\* the string of a sequence of characters
RECURSIVE Str(_)
Str(text) == IF text = <<>> THEN "" ELSE text[1] \o Str(Tail(text))

\* lines 140-147: the arguments of the approval callback, or the URIError
ContentArgs(q) ==
    LET c == decodeURIComponent(q.caption[1])
        h == IF Given(q.hashtags) THEN decodeURIComponent(q.hashtags[1])
             ELSE [raised |-> FALSE, value |-> <<>>]
    IN  IF c.raised THEN c
        ELSE IF h.raised THEN h
        ELSE [raised |-> FALSE,
              value |-> [videoUrl |-> Str(q.videoUrl[1]), caption |-> Str(c.value),
                         hashtags |-> IF Given(q.hashtags) THEN <<Str(h.value)>>
                                      ELSE <<>>]]

\* lines 155-160: the handler's catch block
UploadError(message) == [success |-> FALSE, message |-> "Upload error: " \o message]

\* line 207
InvalidAction(c) == [c EXCEPT !.pc = "sent"] @@ [status |-> 400, page |-> "invalid"]

\* lines 108-130
RejectedPage(c) == [c EXCEPT !.pc = "sent"] @@ [status |-> 200, page |-> "rejected"]

\* lines 164-204: the approved page with the upload status (instagramResult
\* is <<>> for null); lines 194-195 decode caption and hashtags once more,
\* outside the try block, and a URIError there leaves the handler: the
\* framework answers 500
ApprovedPage(c, instagramResult) ==
    IF \/ Given(c.query.caption) /\ decodeURIComponent(c.query.caption[1]).raised
       \/ Given(c.query.hashtags) /\ decodeURIComponent(c.query.hashtags[1]).raised
    THEN [c EXCEPT !.pc = "sent"] @@ [status |-> 500, page |-> "error"]
    ELSE [c EXCEPT !.pc = "sent"]
         @@ [status |-> 200, page |-> "approved", instagram |-> instagramResult]

\* lines 99-148 (and on to the response where the handler does not await):
\* the request arrives; `calls` counts the handler's calls of the approval
\* callback, `table` is the container table as the request found it
ContentAction(q) ==
    /\ content.pc = "idle"
    /\ apPc = "idle"
    /\ LET c == [pc |-> "awaiting", query |-> q, calls |-> 0, table |-> containers] IN
       IF q.action = "reject"
       THEN /\ content' = RejectedPage(c)
            /\ UNCHANGED <<apVars, posts>>
       ELSE IF q.action # "approve"
       THEN /\ content' = InvalidAction(c)
            /\ UNCHANGED <<apVars, posts>>
       ELSE IF ~(Given(q.videoUrl) /\ Given(q.caption))
       THEN /\ content' = ApprovedPage(c, <<>>)
            /\ UNCHANGED <<apVars, posts>>
       ELSE IF ContentArgs(q).raised
       THEN /\ content' = ApprovedPage(c, <<UploadError(ContentArgs(q).message)>>)
            /\ UNCHANGED <<apVars, posts>>
       ELSE /\ content' = [c EXCEPT !.calls = 1]
            /\ ApprovalEnter(ContentArgs(q).value)
    /\ UNCHANGED <<request, poll, env, query, mail, now, wfVars, regVars>>

\* lines 144-204: the approval callback has returned (or thrown), the
\* handler sends its page
ContentResumes ==
    /\ content.pc = "awaiting"
    /\ apPc \in {"done", "caught", "caughtEarly", "thrown"}
    /\ content' = ApprovedPage(content,
                      <<IF apPc = "thrown" THEN UploadError("Unknown error")
                        ELSE apResult>>)
    /\ apPc' = "idle"
    /\ apResult' = NoValue
    /\ UNCHANGED <<request, poll, env, query, mail, now, wfVars, posts, regVars>>

\* the response has been sent
ContentClosed ==
    /\ content.pc = "sent"
    /\ content' = NoContent
    /\ UNCHANGED <<request, poll, env, query, mail, now, wfVars, posts, regVars, apVars>>

(***************************************************************************)
(* VideoService.generateVideo: createVideoTask, then pollTaskStatus.       *)
(***************************************************************************)
\* pollTaskStatus, line 89
maxAttempts == 15

\* GenerateVideoRequest: imageBase64 as its data-URL prefix and its data
\* ("" is the empty sequence), and the prompt
VideoRequests ==
    { [imageBase64 |-> i, prompt |-> q] :
        i \in {<<>>, <<"data:image/jpeg;base64,">>,
                <<"data:image/jpeg;base64,", "AAAA">>, <<"AAAA">>},
        q \in {"", "move"} }

\* line 46: imageBase64.replace(/^data:image\/[a-z]+;base64,/, '')
StripDataUrl(imageBase64) ==
    IF imageBase64 # <<>> /\ imageBase64[1] = "data:image/jpeg;base64,"
    THEN Tail(imageBase64) ELSE imageBase64

\* what the provider answers to the create request (axios.post, line 54)
TaskResponses ==
    { [kind |-> "response", task_id |-> "t1"],
      [kind |-> "response"],
      [kind |-> "error", status |-> 401, message |-> "Request failed with status code 401"],
      [kind |-> "error", message |-> "socket hang up"] }

\* what the provider answers to a status request (axios.get, line 98)
StatusResponses ==
    { [kind |-> "response", status |-> "COMPLETED",
       generated |-> <<"https://v/1.mp4", "https://v/2.mp4">>],
      [kind |-> "response", status |-> "COMPLETED", generated |-> <<>>],
      [kind |-> "response", status |-> "COMPLETED"],
      [kind |-> "response", status |-> "IN_PROGRESS", generated |-> <<>>],
      [kind |-> "response", status |-> "FAILED", generated |-> <<>>],
      [kind |-> "response", status |-> "ERROR", generated |-> <<>>],
      [kind |-> "response"],
      [kind |-> "error", status |-> 404, message |-> "Request failed with status code 404"],
      [kind |-> "error", status |-> 500, message |-> "Request failed with status code 500"],
      [kind |-> "error", message |-> "socket hang up"] }

\* lines 175-180: generateVideo's catch block
GenerateVideoFailure(error) ==
    IF error.badRequest THEN error.message
    ELSE "Error generating video: " \o error.message

BadRequest(message) == [badRequest |-> TRUE, message |-> message]
InternalError(message) == [badRequest |-> FALSE, message |-> message]

VideoRaised(p, error) ==
    [p EXCEPT !.pc = "raised"] @@ [message |-> GenerateVideoFailure(error)]

\* lines 146-161 and 39-67: generateVideo is called and runs to the create
\* request, or raises on its arguments
GenerateVideo(req) ==
    /\ poll.pc = "idle"
    /\ poll' =
        LET p == [pc |-> "creating", attempt |-> 0, requests |-> 0] IN
        IF req.imageBase64 = <<>> \/ req.prompt = ""
        THEN VideoRaised(p, BadRequest("imageBase64 and prompt are required"))
        ELSE IF StripDataUrl(req.imageBase64) = <<>>
        THEN VideoRaised(p, BadRequest("Invalid base64 image data"))
        ELSE p
    /\ UNCHANGED <<request, content, env, query, mail, now, wfVars, posts, regVars,
                   apVars>>

\* lines 69-86, then lines 161 and 88-98: the create request is answered; with
\* a task id the first status request goes out
TaskCreated(resp) ==
    /\ poll.pc = "creating"
    /\ poll' =
        IF resp.kind = "response" /\ Has(resp, "task_id")
        THEN [pc |-> "polling", attempt |-> 1, requests |-> 1, taskId |-> resp.task_id]
        ELSE IF resp.kind = "response"
        THEN VideoRaised(poll,
                 InternalError("Freepik API error: Invalid response from Freepik API"))
        ELSE IF Has(resp, "status")
        THEN VideoRaised(poll, InternalError("Freepik API error: " \o resp.message))
        ELSE VideoRaised(poll, InternalError("Error creating video task: " \o resp.message))
    /\ UNCHANGED <<request, content, env, query, mail, now, wfVars, posts, regVars,
                   apVars>>

\* StatusOutcome, had the catch block lacked the instanceof check of line 129
StatusOutcomeRetryingFailed(resp, attempt) ==
    IF resp.kind = "error" /\ Has(resp, "status") /\ resp.status = 404
    THEN [kind |-> "raise", message |-> "Task not found"]
    ELSE IF resp.kind = "error" \/ ~Has(resp, "status")
            \/ (resp.status = "COMPLETED" /\ ~Has(resp, "generated"))
            \/ resp.status \in {"FAILED", "ERROR"}
    THEN IF attempt = maxAttempts
         THEN [kind |-> "raise",
               message |-> "Failed to get task status after 15 attempts"]
         ELSE [kind |-> "wait"]
    ELSE IF resp.status = "COMPLETED" /\ Len(resp.generated) > 0
    THEN [kind |-> "return", videoUrl |-> resp.generated[1]]
    ELSE IF attempt < maxAttempts
    THEN [kind |-> "wait"]
    ELSE [kind |-> "raise", message |-> "Video generation timed out after 2 minutes"]

\* lines 107-143: one pass of the loop from the answer of its status request:
\* the call returns a URL, raises, or waits for the next pass. A body without
\* data or without the generated list makes lines 107-110 throw a TypeError,
\* which the catch block treats like a transport error
StatusOutcome(resp, attempt) ==
    IF resp.kind = "error" /\ Has(resp, "status") /\ resp.status = 404
    THEN [kind |-> "raise", message |-> "Task not found"]
    ELSE IF resp.kind = "error" \/ ~Has(resp, "status")
            \/ (resp.status = "COMPLETED" /\ ~Has(resp, "generated"))
    THEN IF attempt = maxAttempts
         THEN [kind |-> "raise",
               message |-> "Failed to get task status after 15 attempts"]
         ELSE [kind |-> "wait"]
    ELSE IF resp.status = "COMPLETED" /\ Len(resp.generated) > 0
    THEN [kind |-> "return", videoUrl |-> resp.generated[1]]
    ELSE IF resp.status \in {"FAILED", "ERROR"}
    THEN [kind |-> "raise",
          message |-> "Video generation failed with status: " \o resp.status]
    ELSE IF attempt < maxAttempts
    THEN [kind |-> "wait"]
    ELSE [kind |-> "raise", message |-> "Video generation timed out after 2 minutes"]

\* lines 98-143, then lines 163-180: the status request is answered
StatusAnswered(resp) ==
    /\ poll.pc = "polling"
    /\ poll' =
        LET o == StatusOutcome(resp, poll.attempt) IN
        IF o.kind = "return"
        THEN [poll EXCEPT !.pc = "returned"]
             @@ [value |-> [videoUrl |-> o.videoUrl, taskId |-> poll.taskId]]
        ELSE IF o.kind = "raise"
        THEN VideoRaised(poll, InternalError(o.message))
        ELSE [poll EXCEPT !.pc = "waiting"]
    /\ UNCHANGED <<request, content, env, query, mail, now, wfVars, posts, regVars,
                   apVars>>

\* lines 123 and 139, then lines 94-98: the wait is over, the next pass of the
\* loop issues its status request
PollWaitOver ==
    /\ poll.pc = "waiting"
    /\ poll' = [poll EXCEPT !.pc = "polling", !.attempt = @ + 1, !.requests = @ + 1]
    /\ UNCHANGED <<request, content, env, query, mail, now, wfVars, posts, regVars,
                   apVars>>

\* the caller has the outcome of the call
VideoCollect ==
    /\ poll.pc \in {"returned", "raised"}
    /\ poll' = NoPoll
    /\ UNCHANGED <<request, content, env, query, mail, now, wfVars, posts, regVars,
                   apVars>>

\* time passes; only an operation in progress reads the clock again
Tick ==
    /\ now < MaxTime
    /\ wfPc \notin {"idle", "done", "thrown"} \/ posts # {}
    /\ now' = now + 1
    /\ UNCHANGED <<reqVars, env, query, mail, wfVars, posts, regVars, apVars>>

(***************************************************************************)
(* The system.                                                             *)
(***************************************************************************)
Environments ==
    [INSTAGRAM_ACCESS_TOKEN : BOOLEAN, INSTAGRAM_ACCOUNT_ID : BOOLEAN,
     MAIL_USER : BOOLEAN]

Init ==
    /\ env \in Environments
    /\ now = 0
    /\ wfPc = "idle"
    /\ wfConfig = NoConfig
    /\ wfResult = InitialResult
    /\ wfStart = 0
    /\ wfCalls = <<>>
    /\ containers = <<>>
    /\ timers = [id \in ContainerIds |-> 0]
    /\ posts = {}
    /\ confirms = [id \in ContainerIds |-> 0]
    /\ confirmCalls = [id \in ContainerIds |-> 0]
    /\ apPc = "idle"
    /\ apResult = NoValue
    /\ query = NoQuery
    /\ mail = NoMail
    /\ wfPrevious = <<>>
    /\ request = NoRequest
    /\ content = NoContent
    /\ poll = NoPoll

\* runs of the workflow, one at a time, and the register's deferred work
Next ==
    \/ \E cfg \in Configs : Start(cfg)
    \/ ImageConverted
    \/ \E m \in ImageErrors : ImageFails(m)
    \/ \E c \in CaptionResults : CaptionGenerated(c)
    \/ \E m \in CaptionErrors : CaptionFails(m)
    \/ \E v \in VideoResults : VideoGenerated(v)
    \/ \E m \in VideoErrors : VideoFails(m)
    \/ EmailSent
    \/ \E m \in EmailErrors : EmailFails(m)
    \/ \E resp \in CreateResponses(containers, MaxRunContainers) : InstagramReturns(resp)
    \/ \E m \in InstagramErrors : InstagramRejects(m)
    \/ Collect
    \/ \E id \in ContainerIds : TimerFires(id)
    \/ \E id \in ContainerIds, resp \in ConfirmResponses : ConfirmReturns(id, resp)
    \/ Tick

Spec == Init /\ [][Next]_vars

\* runs of the workflow one after the other, the result of the run before
\* being kept by its caller
NextRuns ==
    \/ \E cfg \in Configs : Start(cfg)
    \/ ImageConverted
    \/ \E m \in ImageErrors : ImageFails(m)
    \/ \E c \in CaptionResults : CaptionGenerated(c)
    \/ \E m \in CaptionErrors : CaptionFails(m)
    \/ \E v \in VideoResults : VideoGenerated(v)
    \/ \E m \in VideoErrors : VideoFails(m)
    \/ EmailSent
    \/ \E m \in EmailErrors : EmailFails(m)
    \/ \E resp \in CreateResponses(containers, MaxRunContainers) : InstagramReturns(resp)
    \/ \E m \in InstagramErrors : InstagramRejects(m)
    \/ CollectKept
    \/ Tick

SpecRuns == Init /\ [][NextRuns]_vars

\* ConfigService as the trigger reads it
TriggerEnvironments ==
    [INSTAGRAM_ACCESS_TOKEN : BOOLEAN, INSTAGRAM_ACCOUNT_ID : BOOLEAN,
     MAIL_USER : BOOLEAN, CRON_RECIPIENT_EMAIL : BOOLEAN]

InitTrigger ==
    /\ env \in TriggerEnvironments
    /\ now = 0
    /\ wfPc = "idle"
    /\ wfConfig = NoConfig
    /\ wfResult = InitialResult
    /\ wfStart = 0
    /\ wfCalls = <<>>
    /\ containers = <<>>
    /\ timers = [id \in ContainerIds |-> 0]
    /\ posts = {}
    /\ confirms = [id \in ContainerIds |-> 0]
    /\ confirmCalls = [id \in ContainerIds |-> 0]
    /\ apPc = "idle"
    /\ apResult = NoValue
    /\ query = NoQuery
    /\ mail = NoMail
    /\ wfPrevious = <<>>
    /\ request = NoRequest
    /\ content = NoContent
    /\ poll = NoPoll

\* the configs POST /workflow/execute is given here
ExecuteConfigs == { cfg \in Configs : cfg.imageUrl = "https://x/img.jpg" }

\* runs started by the two endpoints, one at a time
NextTrigger ==
    \/ \E cfg \in ExecuteConfigs : ExecuteWorkflow(cfg)
    \/ \E dto \in TriggerDtos : TriggerWorkflowNow(dto)
    \/ ImageConverted
    \/ \E m \in ImageErrors : ImageFails(m)
    \/ \E c \in CaptionResults : CaptionGenerated(c)
    \/ \E m \in CaptionErrors : CaptionFails(m)
    \/ \E v \in VideoResults : VideoGenerated(v)
    \/ \E m \in VideoErrors : VideoFails(m)
    \/ EmailSent
    \/ \E m \in EmailErrors : EmailFails(m)
    \/ \E resp \in CreateResponses(containers, MaxRunContainers) : InstagramReturns(resp)
    \/ \E m \in InstagramErrors : InstagramRejects(m)
    \/ RunAnswered
    \/ RequestClosed
    \/ Tick

SpecTrigger == InitTrigger /\ [][NextTrigger]_vars

\* an endpoint answers once its run has returned, and the response goes out
SpecTriggerLive ==
    InitTrigger /\ [][NextTrigger]_vars /\ WF_vars(RunAnswered) /\ WF_vars(RequestClosed)

\* content-action requests, one at a time
NextContent ==
    \/ \E q \in ContentQueries : ContentAction(q)
    \/ \E resp \in CreateResponses(containers, MaxRunContainers) : ApprovalReturns(resp)
    \/ ContentResumes
    \/ ContentClosed

SpecContent == Init /\ [][NextContent]_vars

\* calls of generateVideo, one at a time
NextVideo ==
    \/ \E req \in VideoRequests : GenerateVideo(req)
    \/ \E resp \in TaskResponses : TaskCreated(resp)
    \/ \E resp \in StatusResponses : StatusAnswered(resp)
    \/ PollWaitOver
    \/ VideoCollect

SpecVideo == Init /\ [][NextVideo]_vars

\* the waits of the loop end (setTimeout) and the caller takes the outcome;
\* the requests carry no timeout (lines 54 and 98), so nothing in the code
\* makes an unanswered request end
SpecVideoLive ==
    Init /\ [][NextVideo]_vars /\ WF_vars(PollWaitOver) /\ WF_vars(VideoCollect)

\* approval callbacks, one at a time, and the register's deferred work
NextRegister ==
    \/ \E a \in ApprovalArgs : Approve(a)
    \/ \E resp \in CreateResponses(containers, MaxContainers) : ApprovalReturns(resp)
    \/ ApprovalCollect
    \/ \E id \in ContainerIds : TimerFires(id)
    \/ \E id \in ContainerIds, resp \in ConfirmResponses : ConfirmReturns(id, resp)
    \/ Tick

SpecRegister == Init /\ [][NextRegister]_vars

\* process.env is read at every call (lines 25-26 and 126-127): a credential
\* that was set is taken away while the process runs
CredentialWithdrawn(name) ==
    /\ env[name]
    /\ env' = [env EXCEPT ![name] = FALSE]
    /\ UNCHANGED <<reqVars, mail, query, now, wfVars, posts, regVars, apVars>>

\* the register in an environment that loses its credentials
NextRegisterEnv ==
    \/ \E a \in ApprovalArgs : Approve(a)
    \/ \E resp \in CreateResponses(containers, MaxRunContainers) : ApprovalReturns(resp)
    \/ ApprovalCollect
    \/ \E id \in ContainerIds : TimerFires(id)
    \/ \E id \in ContainerIds, resp \in ConfirmResponses : ConfirmReturns(id, resp)
    \/ Tick
    \/ \E name \in {"INSTAGRAM_ACCESS_TOKEN", "INSTAGRAM_ACCOUNT_ID"} :
          CredentialWithdrawn(name)

SpecRegisterEnv == Init /\ [][NextRegisterEnv]_vars

\* callers of createInstagramContainer whose calls overlap
Callers == {"a", "b"}

\* lines 20-53: a caller's create-call reaches its axios.post
CreateCalled(k) ==
    /\ \A req \in posts : req.caller # k
    /\ MissingCredential(env) = <<>>
    /\ posts' = posts \cup {[caller |-> k, videoUrl |-> "https://v/" \o k \o ".mp4",
                             caption |-> "Hello"]}
    /\ UNCHANGED <<reqVars, env, query, mail, now, wfVars, regVars, apVars>>

\* lines 55-101: the platform answers that caller's create-call
CreateReturns(k, resp) ==
    /\ \E req \in posts :
        /\ req.caller = k
        /\ LET c == createInstagramContainerResume(containers, timers, req, resp, now)
           IN  /\ containers' = c.containers
               /\ timers' = c.timers
               /\ posts' = posts \ {req}
    /\ UNCHANGED <<reqVars, env, query, mail, now, wfVars, confirms, confirmCalls, apVars>>

\* overlapping create-calls and the register's deferred work
NextConcurrent ==
    \/ \E k \in Callers : CreateCalled(k)
    \/ \E k \in Callers, resp \in CreateResponses(containers, MaxContainers) :
          CreateReturns(k, resp)
    \/ \E id \in ContainerIds : TimerFires(id)
    \/ \E id \in ContainerIds, resp \in ConfirmResponses : ConfirmReturns(id, resp)
    \/ Tick

SpecConcurrent == Init /\ [][NextConcurrent]_vars

\* calls of the email service, one at a time
NextMail ==
    \/ \E op \in MailOperations : MailCalled(op)
    \/ MailAttemptSucceeds
    \/ \E message \in MailErrors : MailAttemptFails(message)
    \/ MailWaitOver
    \/ MailCollect

SpecMail == Init /\ [][NextMail]_vars

\* a timer that is armed fires after its minute, and a confirm-call that was
\* issued returns or times out (axios timeout, line 144)
NextRegisterLive ==
    \/ \E a \in PlainArgs : Approve(a)
    \/ \E resp \in CreateResponses(containers, MaxContainers) : ApprovalReturns(resp)
    \/ ApprovalCollect
    \/ \E id \in ContainerIds : TimerFires(id)
    \/ \E id \in ContainerIds, resp \in ConfirmResponses : ConfirmReturns(id, resp)
    \/ Tick

SpecRegisterLive ==
    Init /\ [][NextRegisterLive]_vars /\
    (\A id \in ContainerIds :
        /\ WF_vars(TimerFires(id))
        /\ WF_vars(\E resp \in ConfirmResponses : ConfirmReturns(id, resp)))

\* the register with its status queries: a query is answered at once, every
\* other step runs between two queries
NextQuery ==
    \/ \E containerId \in QueryIds : GetInstagramContainers(containerId)
    \/ QuerySent
    \/ query = NoQuery /\ \E a \in PlainArgs : Approve(a)
    \/ query = NoQuery /\
          \E resp \in CreateResponses(containers, MaxContainers) : ApprovalReturns(resp)
    \/ query = NoQuery /\ ApprovalCollect
    \/ query = NoQuery /\ \E id \in ContainerIds : TimerFires(id)
    \/ query = NoQuery /\
          \E id \in ContainerIds, resp \in ConfirmResponses : ConfirmReturns(id, resp)
    \/ query = NoQuery /\ Tick

SpecQuery == Init /\ [][NextQuery]_vars

TypeOK ==
    /\ wfPc \in {"idle", "image", "caption", "video", "email", "instagram", "done",
                "thrown"}
    /\ DOMAIN containers \subseteq ContainerIds
    /\ now \in 0..MaxTime

(***************************************************************************)
(* Properties of executeCompleteWorkflow.                                  *)
(***************************************************************************)
Returned == wfPc = "done"

Untouched == [success |-> FALSE]

Step(k) == wfResult.steps[StepNames[k]]

RequiredSucceeded == \A s \in RequiredSteps : wfResult.steps[s].success

AutoPublish(cfg) == Has(cfg, "autoPublishToInstagram") /\ cfg.autoPublishToInstagram

\* C1: a returned result has success = true exactly when the four required
\* steps are recorded as succeeded, whatever steps 5 and 6 recorded
C1_SuccessIffRequiredSteps ==
    Returned => (wfResult.success <=> RequiredSucceeded)

C1_Witness ==
    /\ Returned
    /\ wfResult.success
    /\ ~wfResult.steps.emailSending.success
    /\ ~wfResult.steps.instagramUpload.success

\* C2: when required step k failed, the returned result has success = false
\* and no finalOutput, every later step still holds its initial entry, and no
\* collaborator of a later step was invoked nor is a create-call of the run
\* in flight
C2_RequiredFailureStops ==
    \A k \in 1..4 :
        (Returned /\ Has(Step(k), "error")) =>
            /\ ~wfResult.success
            /\ ~Has(wfResult, "finalOutput")
            /\ \A j \in (k + 1)..6 : Step(j) = Untouched
            /\ \A j \in ((k + 1)..6) \ {2} :
                   Collaborator[StepNames[j]] \notin Range(wfCalls)
            /\ \A req \in posts : req.caller # "workflow"

C2_Witness ==
    /\ Returned
    /\ Has(wfResult.steps.videoGeneration, "error")
    /\ wfResult.steps.captionGeneration.success
    /\ wfResult.steps.emailSending = Untouched
    /\ now - wfStart > 0

\* C3: a returned result has a finalOutput exactly when its success is true
C3_FinalOutputIffSuccess ==
    Returned => (Has(wfResult, "finalOutput") <=> wfResult.success)

C3_Witness ==
    /\ Returned
    /\ Has(wfResult, "finalOutput")
    /\ wfResult.success
    /\ ~wfResult.steps.instagramUpload.success
    /\ Has(wfResult.steps.instagramUpload, "error")

\* C4: no exception leaves executeCompleteWorkflow, and on every return the
\* result's executionTime is the time elapsed since entry
C4_NeverThrowsTimeRecorded ==
    /\ wfPc # "thrown"
    /\ Returned => wfResult.executionTime = now - wfStart

C4_Witness ==
    /\ Returned
    /\ ~wfResult.success
    /\ Has(wfResult.steps.captionGeneration, "error")
    /\ wfResult.executionTime > 0

\* the place of a collaborator operation in the fixed order of the steps
StepOf(c) == CHOOSE k \in {1, 3, 4, 5, 6} : Collaborator[StepNames[k]] = c

\* steps whose collaborator was invoked and whose outcome is not recorded yet
InFlight ==
    { k \in {1, 3, 4, 5, 6} :
        Collaborator[StepNames[k]] \in Range(wfCalls) /\ Step(k) = Untouched }

\* C5: collaborators are invoked in the order of the steps, a step's
\* collaborator only once every earlier step has its outcome recorded, and at
\* most one step is in flight
C5_StrictlySequential ==
    /\ \A i, j \in 1..Len(wfCalls) :
           i < j => StepOf(wfCalls[i]) < StepOf(wfCalls[j])
    /\ \A k \in {1, 3, 4, 5, 6} :
           Collaborator[StepNames[k]] \in Range(wfCalls) =>
               \A m \in 1..(k - 1) : Step(m) # Untouched
    /\ Cardinality(InFlight) <= 1

C5_Witness ==
    /\ wfPc = "instagram"
    /\ InFlight = {6}
    /\ Len(wfCalls) = 5

\* C6: when the required steps succeeded and the notification step failed,
\* the failure is recorded with its error, step 6 was still evaluated, and the
\* run returns success with a finalOutput built from the data of steps 1-4
\* and emailSent = false
C6_NotificationBestEffort ==
    (Returned /\ RequiredSucceeded /\ ~wfResult.steps.emailSending.success) =>
        /\ Has(wfResult.steps.emailSending, "error")
        /\ ~Has(wfResult.steps.emailSending, "data")
        /\ Step(6) # Untouched
        /\ AutoPublish(wfConfig) => Collaborator.instagramUpload \in Range(wfCalls)
        /\ wfResult.success
        /\ Has(wfResult, "finalOutput")
        /\ wfResult.finalOutput.emailSent = FALSE
        /\ wfResult.finalOutput.convertedImage =
               wfResult.steps.imageConversion.data.convertedImage
        /\ wfResult.finalOutput.prompt = wfResult.steps.promptGeneration.data.prompt
        /\ wfResult.finalOutput.caption = wfResult.steps.captionGeneration.data.caption
        /\ wfResult.finalOutput.hashtags = wfResult.steps.captionGeneration.data.hashtags
        /\ wfResult.finalOutput.videoUrl = wfResult.steps.videoGeneration.data.videoUrl

C6_Witness ==
    /\ Returned
    /\ RequiredSucceeded
    /\ Has(wfResult.steps.emailSending, "error")
    /\ wfResult.steps.emailSending.error \in EmailErrors
    /\ wfResult.steps.instagramUpload.success
    /\ Has(wfResult.steps.instagramUpload.data, "containerId")
    /\ wfResult.steps.instagramUpload.data.containerId \in DOMAIN containers
    /\ wfResult.finalOutput.instagramPublished

\* C7: a run with autoPublishToInstagram set whose required steps succeeded
\* and whose create-container operation stored no container returns with
\* step 6 recorded as failed, success = true and a finalOutput whose
\* instagramPublished is false
C7_PublishBestEffort ==
    [][ ( /\ wfPc # "done"
          /\ wfPc' = "done"
          /\ AutoPublish(wfConfig')
          /\ \A s \in RequiredSteps : wfResult'.steps[s].success
          /\ containers' = containers )
        => ( /\ wfResult'.steps.instagramUpload # Untouched
             /\ ~wfResult'.steps.instagramUpload.success
             /\ wfResult'.success
             /\ Has(wfResult', "finalOutput")
             /\ wfResult'.finalOutput.instagramPublished = FALSE ) ]_vars

C7_Witness ==
    /\ Returned
    /\ AutoPublish(wfConfig)
    /\ RequiredSucceeded
    /\ ~wfResult.steps.instagramUpload.success
    /\ Has(wfResult.steps.instagramUpload, "data")
    /\ wfResult.steps.instagramUpload.data.message = CreateFailure(PlatformError).message
    /\ wfResult.success
    /\ ~wfResult.finalOutput.instagramPublished

C8_SkippedResult ==
    (Returned /\ ~AutoPublish(wfConfig) /\ RequiredSucceeded) =>
        /\ Collaborator.instagramUpload \notin Range(wfCalls)
        /\ wfResult.steps.instagramUpload.success
        /\ Has(wfResult.steps.instagramUpload, "data")
        /\ Has(wfResult.steps.instagramUpload.data, "skipped")
        /\ wfResult.steps.instagramUpload.data.skipped = TRUE
        /\ wfResult.success
        /\ wfResult.finalOutput.instagramPublished = FALSE

C8_RunLeavesRegister ==
    (wfPc' # wfPc /\ ~AutoPublish(IF wfPc = "idle" THEN wfConfig' ELSE wfConfig)) =>
        (containers' = containers /\ timers' = timers /\ posts' = posts)

\* C8: a run without autoPublishToInstagram whose required steps succeeded
\* makes no create-container call and returns success with step 6 recorded as
\* the skipped success and instagramPublished = false; no step of such a run
\* changes the container table, arms a timer or issues a create-call
C8_SkippedWithoutCreate == []C8_SkippedResult /\ [][C8_RunLeavesRegister]_vars

C8_Witness ==
    /\ Returned
    /\ ~AutoPublish(wfConfig)
    /\ wfResult.success
    /\ wfResult.steps.instagramUpload = SkippedOutcome
    /\ wfResult.finalOutput.instagramPublished = FALSE
    /\ DOMAIN containers # {}

\* C9: in a returned finalOutput, instagramPublished is true exactly when step
\* 6 is recorded as a success other than the skipped one
C9_PublishedFlag ==
    (Returned /\ Has(wfResult, "finalOutput")) =>
        (wfResult.finalOutput.instagramPublished <=>
            (wfResult.steps.instagramUpload.success
             /\ wfResult.steps.instagramUpload # SkippedOutcome))

C9_Witness ==
    /\ Returned
    /\ Has(wfResult, "finalOutput")
    /\ wfResult.finalOutput.instagramPublished
    /\ wfResult.finalOutput.instagramContainerId \in DOMAIN containers

(***************************************************************************)
(* Properties of the publish register.                                     *)
(***************************************************************************)
\* C10: when the platform answers a create-call with an id, the call returns
\* success with that id, the table gains exactly the container of that id,
\* in status processing, every other entry stays as it was, exactly one timer
\* is armed, for that id, and getContainerStatus of the id shows processing
C10_CreateStoresAndArms ==
    [][ \A resp \in CreateResponses(containers, MaxContainers) :
          (Has(resp, "id") /\ ApprovalReturns(resp)) =>
            /\ apResult'.success
            /\ Has(apResult', "containerId")
            /\ apResult'.containerId = resp.id
            /\ resp.id \notin DOMAIN containers
            /\ DOMAIN containers' = DOMAIN containers \cup {resp.id}
            /\ \A k \in DOMAIN containers : containers'[k] = containers[k]
            /\ containers'[resp.id].containerId = resp.id
            /\ containers'[resp.id].status = "processing"
            /\ timers' = [timers EXCEPT ![resp.id] = timers[resp.id] + 1]
            /\ getContainerStatus(containers', resp.id) # <<>>
            /\ getContainerStatus(containers', resp.id)[1].status = "processing" ]_vars

C10_Witness ==
    /\ apPc = "done"
    /\ apResult.success
    /\ Has(apResult, "containerId")
    /\ Cardinality(DOMAIN containers) = 2
    /\ apResult.containerId = ContainerId(2)
    /\ containers[apResult.containerId].status = "processing"
    /\ timers[apResult.containerId] = 1

Terminal == {"published", "failed"}

\* C11: once a container's status is published or failed, no step of the
\* register (a create, a timer firing, a confirm-call returning, a status
\* query) removes the container or changes that status.
C11_TerminalStatusFinal ==
    [][\A id \in DOMAIN containers :
          containers[id].status \in Terminal =>
              /\ id \in DOMAIN containers'
              /\ containers'[id].status = containers[id].status]_vars

\* one container was published, a later one failed, and a query is being
\* answered with the first one's status
C11_Witness ==
    /\ DOMAIN containers = {"C1", "C2"}
    /\ containers["C1"].status = "published"
    /\ containers["C2"].status = "failed"
    /\ query = StatusResponse(containers, "C1")
    /\ query.status.status = "published"

\* C12: every container gets exactly one confirm-call: never two, none for an
\* id that is not in the table, none pending or armed once the container is
\* published or failed (a failed confirm-call is not issued again), and, as
\* long as timers fire and calls return, never zero.
C12_ExactlyOneConfirmCall ==
    /\ [](\A id \in ContainerIds :
            /\ confirmCalls[id] <= 1
            /\ confirmCalls[id] = 1 => id \in DOMAIN containers
            /\ (id \in DOMAIN containers /\ containers[id].status \in Terminal) =>
                  (confirmCalls[id] = 1 /\ timers[id] = 0 /\ confirms[id] = 0))
    /\ \A id \in ContainerIds :
            (id \in DOMAIN containers) ~> (confirmCalls[id] = 1)

\* the one confirm-call of the first container failed and the second
\* container's has been issued
C12_Witness ==
    /\ DOMAIN containers = {"C1", "C2"}
    /\ containers["C1"].status = "failed"
    /\ confirmCalls["C1"] = 1
    /\ confirms["C2"] = 1
    /\ confirmCalls["C2"] = 1

\* C13: as long as timers fire and confirm-calls return or time out, every
\* container that was created reaches published or failed; none stays in
\* processing for ever.
C13_EveryContainerSettles ==
    \A id \in ContainerIds :
        (id \in DOMAIN containers) ~>
            (id \in DOMAIN containers /\ containers[id].status \in Terminal)

\* the only container has gone from processing to published through its
\* timer and its confirm-call
C13_Witness ==
    /\ DOMAIN containers = {"C1"}
    /\ containers["C1"].status = "published"
    /\ timers["C1"] = 0
    /\ confirms["C1"] = 0
    /\ confirmCalls["C1"] = 1

\* C14: a timer is armed, and a confirm-call issued or pending, only for an id
\* that is in the table; a step that issues a confirm-call issues it for a
\* stored id; and a timer firing for an id that is not in the table issues no
\* call and changes no state.
C14_ConfirmOnlyForStored ==
    /\ [](\A id \in ContainerIds :
            (timers[id] > 0 \/ confirms[id] > 0 \/ confirmCalls[id] > 0) =>
                id \in DOMAIN containers)
    /\ [][\A id \in ContainerIds :
              /\ confirmCalls'[id] > confirmCalls[id] => id \in DOMAIN containers
              /\ (TimerFires(id) /\ id \notin DOMAIN containers) =>
                    UNCHANGED <<containers, confirms, confirmCalls, posts>>]_vars

\* the second container's confirm-call is pending while the first one's
\* timer is still armed
C14_Witness ==
    /\ DOMAIN containers = {"C1", "C2"}
    /\ timers["C1"] = 1
    /\ confirms["C2"] = 1
    /\ containers["C2"].status = "processing"

CredentialsMissing == ~env.INSTAGRAM_ACCESS_TOKEN \/ ~env.INSTAGRAM_ACCOUNT_ID

\* C15: with the access token or the account id missing, a create-call
\* returns success=false at once: no request goes to the platform, no
\* container is stored, no timer is armed and no confirm-call follows. (A
\* callback that ends before its create-call, caughtEarly, makes none.)
C15_MissingCredentialsNoCall ==
    CredentialsMissing =>
        /\ posts = {}
        /\ containers = <<>>
        /\ \A id \in ContainerIds :
              timers[id] = 0 /\ confirms[id] = 0 /\ confirmCalls[id] = 0
        /\ apPc \in {"idle", "done", "caughtEarly"}
        /\ apPc = "done" => (~apResult.success /\ ~Has(apResult, "containerId"))

\* the token is set, the account id is not, and a create-call has returned
C15_Witness ==
    /\ env.INSTAGRAM_ACCESS_TOKEN
    /\ ~env.INSTAGRAM_ACCOUNT_ID
    /\ apPc = "done"
    /\ ~apResult.success
    /\ apResult.message =
          "Failed to create Instagram container: INSTAGRAM_ACCOUNT_ID environment variable is not set"

\* C16: a create-call never raises to its caller (the callback's catch block
\* is never entered), and whatever made it fail -- missing credentials, a
\* platform error, a transport error or timeout, a response without an id --
\* it returns exactly success=false and a message, with no containerId.
C16_CreateNeverRaises ==
    /\ apPc # "caught"
    /\ apPc = "done" =>
          IF apResult.success
          THEN DOMAIN apResult = {"success", "containerId", "message"}
          ELSE DOMAIN apResult = {"success", "message"} /\ apResult.message # ""

\* the platform answered without an id and the create-call has returned
C16_Witness ==
    /\ apPc = "done"
    /\ ~apResult.success
    /\ apResult.message =
          "Failed to create Instagram container: No container ID returned from Facebook API"

\* the form in which a platform-reported error is returned: the platform's
\* text, type and code after "Instagram API error: "
PlatformErrorForm(message) ==
    \E text \in {PlatformError.error.message, PlatformError.message,
                 TransportError.message},
       type \in {PlatformError.error.type, "Unknown"},
       code \in {PlatformError.error.code, "N/A"} :
        message = "Instagram API error: " \o text \o " (Type: " \o type
                      \o ", Code: " \o code \o ")"

\* the create-call failed and the platform sent no error response
NoPlatformResponse(resp) == resp.kind = "error" /\ ~Has(resp.error, "error")

\* C17: the message of a failed create-call surfaces the platform's text,
\* type and code when the platform reported an error, and is not in that
\* platform-error form when the platform returned no error response (network
\* failure, timeout).
C17_TransportNotPlatformForm ==
    [][\A resp \in CreateResponses(containers, MaxContainers) :
          ApprovalReturns(resp) =>
              /\ (resp.kind = "error" /\ Has(resp.error, "error")) =>
                    apResult'.message =
                        "Instagram API error: " \o resp.error.error.message
                            \o " (Type: " \o resp.error.error.type
                            \o ", Code: " \o resp.error.error.code \o ")"
              /\ NoPlatformResponse(resp) => ~PlatformErrorForm(apResult'.message)]_vars

\* C18: the status of every container is processing, published or failed
\* (pending and ready are never assigned); a container enters the table as
\* processing, and the only changes of status are processing to published
\* and processing to failed.
C18_StatusLifecycle ==
    /\ [](\A id \in DOMAIN containers :
            containers[id].status \in {"processing", "published", "failed"})
    /\ [][\A id \in DOMAIN containers' :
              IF id \in DOMAIN containers
              THEN containers'[id].status # containers[id].status =>
                       /\ containers[id].status = "processing"
                       /\ containers'[id].status \in Terminal
              ELSE containers'[id].status = "processing"]_vars

\* the first container went from processing to failed, the second is still
\* processing with its timer armed
C18_Witness ==
    /\ DOMAIN containers = {"C1", "C2"}
    /\ containers["C1"].status = "failed"
    /\ containers["C2"].status = "processing"
    /\ timers["C2"] = 1
    /\ query = NoQuery

\* a create-call of the approval callback returns success
CreateSucceeds == apPc = "await" /\ apPc' = "done" /\ apResult'.success

\* C19: a container that is in the table stays in it, whatever happens later
\* (later successful create-calls included); only its own confirm step
\* changes it, and that step changes nothing but the status: containerId,
\* videoUrl, caption and createdAt stay as stored. getStatus finds every
\* stored id, and listAll has exactly one entry per id: one more after each
\* successful create-call, the same number after any other step.
C19_ContainersKept ==
    /\ [](/\ \A id \in DOMAIN containers :
                /\ containers[id].containerId = id
                /\ getContainerStatus(containers, id) = <<containers[id]>>
          /\ {c.containerId : c \in getAllContainers(containers)} = DOMAIN containers
          /\ Cardinality(getAllContainers(containers)) = Cardinality(DOMAIN containers))
    /\ [][/\ \A id \in DOMAIN containers :
                /\ id \in DOMAIN containers'
                /\ [containers'[id] EXCEPT !.status = containers[id].status]
                       = containers[id]
                /\ containers'[id] # containers[id] =>
                       \/ TimerFires(id)
                       \/ \E resp \in ConfirmResponses : ConfirmReturns(id, resp)
          /\ Cardinality(getAllContainers(containers')) =
                Cardinality(getAllContainers(containers))
                    + (IF CreateSucceeds THEN 1 ELSE 0)]_vars

\* the first container, stored at time 0, has been published, a second one
\* has been stored at time 1, and listAll is answering with both
C19_Witness ==
    /\ DOMAIN containers = {"C1", "C2"}
    /\ containers["C1"].status = "published"
    /\ containers["C1"].createdAt = 0
    /\ containers["C2"].createdAt = 1
    /\ query = ListResponse(containers)
    /\ query.count = 2

\* a status query is answered in this step
QueryAnswered == query = NoQuery /\ query' # NoQuery

\* C20: getStatus and listAll are lookups. A query changes no container,
\* arms no timer and starts no call to the platform; a query for an id answers
\* with that container if it is in the table and with not-found otherwise,
\* every time it is asked; a query without an id answers with all the
\* containers of the table and their number.
C20_QueriesArePure ==
    [][QueryAnswered =>
          /\ UNCHANGED <<containers, timers, posts, confirms, confirmCalls>>
          /\ IF Has(query', "containerId")
             THEN query'.status =
                      IF query'.containerId \in DOMAIN containers
                      THEN containers[query'.containerId]
                      ELSE ContainerNotFound
             ELSE /\ query'.containers = {containers[id] : id \in DOMAIN containers}
                  /\ query'.count = Cardinality(DOMAIN containers)]_vars

\* a query for an id the platform never issued is answered with not-found
\* while the table holds a container whose timer is armed
C20_Witness ==
    /\ DOMAIN containers = {"C1"}
    /\ timers["C1"] = 1
    /\ Has(query, "containerId")
    /\ query.containerId = "C0"
    /\ query.status = ContainerNotFound

(***************************************************************************)
(* Properties of the approval callback.                                    *)
(***************************************************************************)
\* C21: handleEmailApprovalWithInstagram never raises. An exception thrown
\* while the caption is built, or by the register, ends in a returned value
\* with success=false and a message, and nothing else; every value the
\* callback returns has a success flag and a message.
C21_ApprovalNeverRaises ==
    /\ apPc # "thrown"
    /\ apPc \in {"caught", "caughtEarly"} =>
          /\ DOMAIN apResult = {"success", "message"}
          /\ ~apResult.success
          /\ apResult.message # ""
    /\ apPc = "done" => (Has(apResult, "success") /\ Has(apResult, "message"))

\* hashtags was a string: the TypeError of hashtags.join has been caught and
\* returned as a value
C21_Witness ==
    /\ apPc = "caughtEarly"
    /\ apResult = [success |-> FALSE,
                   message |-> "Failed to upload to Instagram: hashtags.join is not a function"]
    /\ posts = {}

\* the create-calls of the approval callback that are with the platform
ApprovalPosts(p) == {req \in p : req.caller = "approval"}

\* C22: a callback whose hashtags are an array makes one create-call, with
\* the caption alone when there are no hashtags and with the caption, a blank
\* line and the hashtags joined by single spaces otherwise; and it returns
\* what the register returns: success, the platform's id and the register's
\* message, or the register's failure.
C22_ApprovalForwardsOnce ==
    /\ [](Cardinality(ApprovalPosts(posts)) <= 1)
    /\ [][/\ \A args \in ApprovalArgs :
                (Approve(args) /\ ~Has(args, "notArray") /\ ~CredentialsMissing) =>
                    posts' = posts \cup
                        {[caller |-> "approval", videoUrl |-> args.videoUrl,
                          caption |-> IF args.hashtags = <<>> THEN "Hello"
                                      ELSE "Hello\n\n#a #b"]}
          /\ \A resp \in CreateResponses(containers, MaxContainers) :
                ApprovalReturns(resp) =>
                    /\ apPc' = "done"
                    /\ ApprovalPosts(posts') = {}
                    /\ apResult' =
                          IF resp.kind = "response" /\ Has(resp, "id")
                          THEN [success |-> TRUE, containerId |-> resp.id,
                                message |-> CreatedMessage]
                          ELSE IF resp.kind = "error"
                          THEN CreateFailure(resp.error)
                          ELSE CreateFailure(PlainError(
                                   "No container ID returned from Facebook API"))]_vars

\* the callback returned the stub's id "C1" and the container holds the
\* caption with its hashtags
C22_Witness ==
    /\ apPc = "done"
    /\ apResult = [success |-> TRUE, containerId |-> "C1", message |-> CreatedMessage]
    /\ "C1" \in DOMAIN containers
    /\ containers["C1"].caption = "Hello\n\n#a #b"

(***************************************************************************)
(* Properties of the deferred confirm step.                                *)
(***************************************************************************)
\* C23: the confirm step absorbs every failure into the container's status.
\* Once the timer has fired and no confirm-call is pending the container is
\* published or failed; a confirm-call that returns a media id publishes it,
\* any other answer (platform error, transport error, a response without a
\* media id) makes it failed; a timer that fires while a credential is
\* missing makes it failed without issuing a confirm-call; and a container
\* becomes published in no other way.
C23_ConfirmAbsorbsFailures ==
    /\ [](\A id \in DOMAIN containers :
            (timers[id] = 0 /\ confirms[id] = 0) => containers[id].status \in Terminal)
    /\ [][\A id \in DOMAIN containers :
              /\ (TimerFires(id) /\ CredentialsMissing) =>
                    /\ confirmCalls' = confirmCalls
                    /\ confirms' = confirms
                    /\ containers'[id].status = "failed"
              /\ \A resp \in ConfirmResponses :
                    ConfirmReturns(id, resp) =>
                        containers'[id].status =
                            IF resp.kind = "response" /\ Has(resp, "id")
                            THEN "published" ELSE "failed"
              /\ (containers[id].status # "published"
                     /\ containers'[id].status = "published") =>
                    \E resp \in ConfirmResponses :
                        /\ resp.kind = "response"
                        /\ Has(resp, "id")
                        /\ ConfirmReturns(id, resp)]_vars

\* the account id was taken away after the container was stored: the timer
\* fired, no confirm-call was issued and the container is failed
C23_Witness ==
    /\ DOMAIN containers = {"C1"}
    /\ env.INSTAGRAM_ACCESS_TOKEN
    /\ ~env.INSTAGRAM_ACCOUNT_ID
    /\ timers["C1"] = 0
    /\ confirmCalls["C1"] = 0
    /\ containers["C1"].status = "failed"

\* C24: containers do not interfere. With create-calls that overlap and
\* timers that fire in any order, a create-call answered with an id leaves
\* that id in the table and every other entry as it was; an entry stays in
\* the table; and a step that changes a container's status is that
\* container's own confirm-call returning, sets the status its own answer
\* gives, and leaves every other entry as it was.
C24_ContainersIndependent ==
    [][/\ \A k \in Callers, resp \in CreateResponses(containers, MaxContainers) :
            (CreateReturns(k, resp) /\ Has(resp, "id")) =>
                /\ resp.id \in DOMAIN containers'
                /\ \A id \in DOMAIN containers : containers'[id] = containers[id]
       /\ \A id \in DOMAIN containers :
            /\ id \in DOMAIN containers'
            /\ containers'[id].status # containers[id].status =>
                  /\ \E resp \in ConfirmResponses :
                        /\ ConfirmReturns(id, resp)
                        /\ containers'[id].status =
                              IF resp.kind = "response" /\ Has(resp, "id")
                              THEN "published" ELSE "failed"
                  /\ \A other \in DOMAIN containers \ {id} :
                        containers'[other] = containers[other]]_vars

\* the second container is already failed while the first one's confirm-call
\* is pending, and another create-call is with the platform
C24_Witness ==
    /\ DOMAIN containers = {"C1", "C2"}
    /\ containers["C1"].status = "processing"
    /\ confirms["C1"] = 1
    /\ containers["C2"].status = "failed"
    /\ posts # {}
    /\ apPc = "idle"

(***************************************************************************)
(* Further properties of executeCompleteWorkflow.                          *)
(***************************************************************************)
\* how many times the run has invoked the collaborator operation of step k
Invocations(k) ==
    Cardinality({i \in 1..Len(wfCalls) : wfCalls[i] = Collaborator[StepNames[k]]})

\* C25: the orchestrator retries nothing. In a run, image conversion,
\* caption generation, video generation, the content email and the
\* create-call are each invoked at most once, whether they succeed or fail,
\* and the run has at most one create-call with the platform.
C25_NoOrchestratorRetry ==
    /\ \A k \in {1, 3, 4, 5, 6} : Invocations(k) <= 1
    /\ Cardinality({req \in posts : req.caller = "workflow"}) <= 1

\* video generation failed and the run returned: the three collaborators it
\* reached were each invoked once
C25_Witness ==
    /\ Returned
    /\ Has(wfResult.steps.videoGeneration, "error")
    /\ Len(wfCalls) = 3
    /\ \A k \in {1, 3, 4} : Invocations(k) = 1

\* C26: in a returned result every step outcome that was recorded is one of
\* the two variants: success with data and no error, or failure with an error
\* text and no data.
C26_TaggedOutcomes ==
    Returned =>
        \A k \in 1..Len(StepNames) :
            Step(k) # Untouched =>
                IF Step(k).success
                THEN Has(Step(k), "data") /\ ~Has(Step(k), "error")
                ELSE Has(Step(k), "error") /\ ~Has(Step(k), "data")

(***************************************************************************)
(* Properties of the email service.                                        *)
(***************************************************************************)
\* C27: a call of sendApprovalEmail or sendContentDeliveryEmail makes at most
\* 3 attempts; it returns at the first attempt that succeeds, with every
\* earlier attempt failed and no attempt after it; and it raises only when 3
\* attempts have failed.
C27_AtMostThreeAttempts ==
    /\ [](mail # NoMail =>
            /\ mail.attempt \in 1..3
            /\ mail.pc = "returned" => mail.failed = mail.attempt - 1
            /\ mail.pc = "raised" => (mail.failed = 3 /\ mail.attempt = 3))
    /\ [][(mail # NoMail /\ mail.pc \in {"returned", "raised"}) =>
              mail' \in {mail, NoMail}]_vars

\* the third attempt of sendContentDeliveryEmail failed and the call raised
C27_Witness ==
    /\ mail.pc = "raised"
    /\ mail.op = "sendContentDeliveryEmail"
    /\ mail.failed = 3
    /\ mail.message =
          "Email delivery failed after 3 attempts: nodemailer.createTransporter is not a function"

\* C28: the wait that follows the k-th failed attempt is k x 2 seconds, for
\* k = 1, 2 and 3.
C28_LinearBackoff ==
    mail # NoMail =>
        \A k \in 1..3 :
            mail.failed >= k =>
                (Len(mail.waits) >= k /\ mail.waits[k] = k * 2000)

\* the image reference of the run is empty or is not an http(s) URL
BadImageReference == wfConfig.imageUrl \in {"", "ftp://x/img.jpg"}

\* C29: a run whose image reference is empty or not an http(s) URL fails at
\* step 1 in the stretch that started it: nothing is downloaded, no later
\* collaborator is invoked, no create-call is issued, the register is left as
\* it was, step 1 is not invoked again, and the run returns success=false
\* with the error in steps.imageConversion and every later step untouched.
C29_BadImageFailsEarly ==
    /\ []((wfPc # "idle" /\ BadImageReference) =>
            /\ Returned
            /\ ~wfResult.success
            /\ ~Has(wfResult, "finalOutput")
            /\ Has(wfResult.steps.imageConversion, "error")
            /\ ~Has(wfResult.steps.imageConversion, "data")
            /\ wfCalls = <<Collaborator.imageConversion>>
            /\ \A k \in 2..6 : Step(k) = Untouched
            /\ \A req \in posts : req.caller # "workflow")
    /\ [][(wfPc = "idle" /\ wfPc' # "idle" /\ BadImageReference') =>
              UNCHANGED <<posts, containers, timers, confirms, confirmCalls>>]_vars

\* a run given an ftp URL has returned with the validation error of step 1
C29_Witness ==
    /\ Returned
    /\ wfConfig.imageUrl = "ftp://x/img.jpg"
    /\ ~wfResult.success
    /\ wfResult.steps.imageConversion =
          [success |-> FALSE, error |-> "Invalid image URL provided."]

\* what a run has when step 1 refused the image reference
FailedAtStepOne(message) ==
    [InitialResult EXCEPT
        !.steps.imageConversion = [success |-> FALSE, error |-> message]]

RunWithoutRequest == wfPc \notin {"idle"} /\ request.pc # "awaiting"

\* C31: the workflow is started by the server itself, every day at the
\* scheduled time, with no trigger or execute request: again and again a run
\* is in progress that no request started
C31_DailyRunWithoutRequest == []<>RunWithoutRequest

TriggerRun == request.endpoint = "trigger" /\ request.pc = "awaiting"

PublishedRun(pc, res) ==
    /\ pc = "done"
    /\ Has(res, "finalOutput")
    /\ res.finalOutput.instagramPublished

\* C32: at the moment a run returns with finalOutput.instagramPublished true,
\* finalOutput.instagramContainerId names a container of the table in status
\* processing whose timer is armed and for which no confirm-call was issued;
\* whatever becomes of the container afterwards, the returned result stays
\* as it was
C32_PublishedMeansProcessing ==
    /\ [][(wfPc # "done" /\ PublishedRun(wfPc', wfResult')) =>
            LET id == wfResult'.finalOutput.instagramContainerId IN
            /\ id \in DOMAIN containers'
            /\ containers'[id].status = "processing"
            /\ timers'[id] = 1
            /\ confirms'[id] = 0
            /\ confirmCalls'[id] = 0]_vars
    /\ [][(wfPc = "done" /\ wfPc' = "done") => wfResult' = wfResult]_vars

\* a run has returned with instagramPublished true and its container has
\* become failed since
C32_Witness ==
    /\ PublishedRun(wfPc, wfResult)
    /\ wfResult.finalOutput.instagramContainerId \in DOMAIN containers
    /\ containers[wfResult.finalOutput.instagramContainerId].status = "failed"
    /\ confirmCalls[wfResult.finalOutput.instagramContainerId] = 1

\* the create-call of the approval callback returns success = false
CreateFailed == apPc \notin {"done"} /\ apPc' = "done" /\ ~apResult'.success

\* C33: a create-call that returns success = false, whatever made it fail,
\* leaves the container table as it was and arms no timer, and no timer or
\* confirm-call ever exists for an id the table does not hold
C33_FailedCreateLeavesRegister ==
    /\ [][CreateFailed =>
            /\ containers' = containers
            /\ timers' = timers
            /\ confirms' = confirms
            /\ confirmCalls' = confirmCalls]_vars
    /\ [](\A id \in ContainerIds \ DOMAIN containers :
            timers[id] = 0 /\ confirms[id] = 0 /\ confirmCalls[id] = 0)
    /\ [](DOMAIN containers \subseteq ContainerIds)

\* a create-call has failed on a response without an id while the table holds
\* a container whose timer is armed
C33_Witness ==
    /\ apPc = "done"
    /\ ~apResult.success
    /\ apResult.message =
          "Failed to create Instagram container: No container ID returned from Facebook API"
    /\ DOMAIN containers = {"C1"}
    /\ timers["C1"] = 1
    /\ confirmCalls["C1"] = 0

\* the containers stored for one video URL and caption text
ContainersOf(videoUrl, caption) ==
    { id \in DOMAIN containers :
        containers[id].videoUrl = videoUrl /\ containers[id].caption = caption }

\* C34: approvals of the same content, however many, lead to at most one
\* container for that content, and so to at most one confirm-call for it
C34_OneContainerPerContent ==
    \A id \in DOMAIN containers :
        /\ ContainersOf(containers[id].videoUrl, containers[id].caption) = {id}
        /\ confirmCalls[id] <= 1

\* C35: the caption text the auto-publish step of a run sends with its
\* create-call is the text the approval callback sends for the same caption
\* and hashtag list, the empty list included
C35_SameCaptionText ==
    \A req \in posts :
        req.caller = "workflow" =>
            req.caption =
                ApprovalFullCaption(wfResult.steps.captionGeneration.data.caption,
                                    wfResult.steps.captionGeneration.data.hashtags)

RecipientGiven == Has(wfConfig, "recipientEmail") /\ wfConfig.recipientEmail # ""

\* C39: in a run that reached step 5, the notification goes to
\* config.recipientEmail if given and to the configured MAIL_USER otherwise;
\* with neither, step 5 is recorded as failed with no send attempt made, and
\* the run still returns success = true with finalOutput.emailSent = false
C39_RecipientRule ==
    (Returned /\ wfResult.steps.videoGeneration.success) =>
        IF ~RecipientGiven /\ ~env.MAIL_USER
        THEN /\ wfResult.steps.emailSending =
                  StepFailed("No recipient email provided and MAIL_USER not configured")
             /\ Collaborator.emailSending \notin Range(wfCalls)
             /\ wfResult.success
             /\ wfResult.finalOutput.emailSent = FALSE
        ELSE /\ Collaborator.emailSending \in Range(wfCalls)
             /\ wfResult.steps.emailSending.success =>
                   wfResult.steps.emailSending.data.recipientEmail =
                       IF RecipientGiven THEN wfConfig.recipientEmail
                       ELSE "owner@mail.com"

\* a run without any recipient has returned: success, nothing sent
C39_Witness ==
    /\ Returned
    /\ ~RecipientGiven
    /\ ~env.MAIL_USER
    /\ wfResult.success
    /\ ~wfResult.steps.emailSending.success
    /\ wfResult.finalOutput.emailSent = FALSE
    /\ wfCalls = <<"convertImageToAspectRatio", "generateCaptionFromImageUrl",
                   "generateVideo">>

(***************************************************************************)
(* Properties of VideoService.generateVideo.                               *)
(***************************************************************************)
VideoEnded == poll.pc \in {"returned", "raised"}

\* C37: one call issues at most 15 status requests, one per pass of the
\* loop whatever the answer was, it raises when the 15th is unsuccessful
\* too, and every call of generateVideo ends, with a video URL or with an
\* exception
C37_GenerateVideoTerminates ==
    /\ [](poll.pc # "idle" =>
            /\ poll.requests = poll.attempt
            /\ poll.requests <= maxAttempts
            /\ poll.pc = "waiting" => poll.attempt < maxAttempts)
    /\ (poll.pc # "idle") ~> VideoEnded

\* C38: the loop ends at the first terminal answer, with no further
\* request: COMPLETED with a non-empty generated list returns its first URL;
\* FAILED, ERROR and a 404 raise at once; COMPLETED with an empty list is
\* not terminal, the loop waits for its next pass (or, on the last pass,
\* raises the time-out)
C38_StopsAtFirstTerminal ==
    /\ [][\A resp \in StatusResponses :
            StatusAnswered(resp) =>
              /\ poll'.requests = poll.requests
              /\ (resp.kind = "response" /\ Has(resp, "status")
                  /\ Has(resp, "generated")) =>
                    CASE resp.status = "COMPLETED" /\ resp.generated # <<>> ->
                           /\ poll'.pc = "returned"
                           /\ poll'.value.videoUrl = resp.generated[1]
                      [] resp.status \in {"FAILED", "ERROR"} ->
                           /\ poll'.pc = "raised"
                           /\ poll'.message =
                                 "Error generating video: Video generation failed with status: "
                                     \o resp.status
                      [] OTHER ->
                           IF poll.attempt < maxAttempts
                           THEN poll'.pc = "waiting"
                           ELSE /\ poll'.pc = "raised"
                                /\ poll'.message =
                                      "Error generating video: Video generation timed out after 2 minutes"
              /\ (resp.kind = "error" /\ Has(resp, "status") /\ resp.status = 404) =>
                    /\ poll'.pc = "raised"
                    /\ poll'.message = "Error generating video: Task not found"]_vars
    /\ [][VideoEnded => poll' = NoPoll]_vars

\* the second status request was answered COMPLETED with two URLs and the
\* call has returned the first
C38_Witness ==
    /\ poll.pc = "returned"
    /\ poll.requests = 2
    /\ poll.value = [videoUrl |-> "https://v/1.mp4", taskId |-> "t1"]

(***************************************************************************)
(* Properties of the content-action handler.                               *)
(***************************************************************************)
BothGiven(q) == Given(q.videoUrl) /\ Given(q.caption)

\* C36: when the handler has answered, a reject has called neither the
\* approval callback nor createContainer; an approve has called the approval
\* callback exactly once if videoUrl and caption are both given and not at
\* all otherwise, in which case it reports approval and creates no
\* container; any other action got an error response and no container
C36_ContentActionRule ==
    content.pc = "sent" =>
        LET q == content.query IN
        CASE q.action = "reject" ->
               /\ content.calls = 0
               /\ containers = content.table
               /\ content.page = "rejected"
          [] q.action = "approve" ->
               /\ content.calls = (IF BothGiven(q) THEN 1 ELSE 0)
               /\ ~BothGiven(q) =>
                     /\ content.page = "approved"
                     /\ containers = content.table
          [] OTHER ->
               /\ content.calls = 0
               /\ containers = content.table
               /\ content.status = 400

====
